---- MODULE Spec2Model ----
(***************************************************************************)
(* Per-call real-time audio bridge of the AI receptionist: the             *)
(* RealtimeSession (src/src/realtime/session.ts), the per-call state map   *)
(* (src/src/env.ts) and the media-stream / status / notification glue of   *)
(* the server entry point (src/unnamed/part_004).                          *)
(***************************************************************************)
EXTENDS Integers, Sequences, FiniteSets, TLC

(* ---------------------------------------------------------------- bounds *)
\* largest carrier media timestamp the carrier reports
MaxTs == 3
\* number of assistant output items the engine produces in one call
MaxItems == 2
\* playback marks that may be outstanding at the carrier at once
MaxMarks == 2
\* "end_call" tool invocations the engine sends in one call
MaxEndCalls == 2
\* comma-separated pieces of a tenant's trade_type
MaxTrades == 2
\* largest clock value and demo-slot expiry time
MaxNow == 2
\* statements run on the database in one behaviour of the persistence layer
MaxWrites == 6

(* ----------------------------------------------------------- value space *)
Call == "CA1"
ABSENT == "<absent>"
NULLV == "<null>"
EMPTY == ""
NoTs == -1
NoItem == 0
NoSid == "<null>"
StreamSids == {"MZ1", NoSid}
MarkNames == {"r-1", "r-2"}
MediaPayloads == {"p1", "p2", ABSENT}

PatchFields == {"name", "address"}
PatchValues == {ABSENT, NULLV, EMPTY, "v1", "v2"}
AddressValues == {ABSENT, EMPTY, "12 Main St"}
IntentValues == {ABSENT, EMPTY, "new_job", "spam"}
LeadKeys == PatchFields \cup {"phone", "caller_intent", "urgency_level"}
LeadColumns == PatchFields \cup {"phone", "urgency_level"}
\* the enum of the save_lead tool schema, and what an engine may send besides
UrgencyEnum == {"emergency", "urgent", "routine"}
UrgencyValues == UrgencyEnum \cup {"asap", EMPTY}
FromValues == {"+61400", ABSENT}

NO_SMS_INTENTS == {"wrong_number", "spam", "telemarketer", "silent", "abusive"}

\* v !== null && v !== undefined && v !== ""
IsSet_NoEmptyCheck(v) == v \notin {ABSENT, NULLV}

IsSet(v) == v \notin {ABSENT, NULLV, EMPTY}

\* JavaScript truthiness of a string-or-null value
Truthy(v) == v \notin {ABSENT, NULLV, EMPTY}

Max0(x) == IF x > 0 THEN x ELSE 0

VARIABLES
  mem,                 \* env.ts: Map<string, CallState>
  calls, leads, notifications,   \* database tables, keyed by call id
  session,             \* part_004: `session` of the carrier connection (constructed or not)
  twilioWs,            \* readyState of the carrier connection
  openAiWs,            \* readyState of the engine connection
  streamSid, lastAssistantItemId, responseStartTs, latestMediaTs, markQueue, ended,
  greetTimer,          \* initSession's 200 ms timer is pending
  endCallTimers,       \* number of pending 4000 ms end_call timers
  smsInFlight,         \* sendOwnerSms requests awaiting their result
  sent,                \* messages the last handler wrote to the two connections
  lastEvent,           \* the handler that ran last
  hangups, notifyTriggers, smsRequests, smsSent,   \* side-effect counters
  callOver,            \* the carrier has torn the call down (caller hung up or REST hang-up)
  statusCompleted,     \* the "completed" status webhook has been delivered
  twilioStopped,       \* the carrier sent its "stop" event
  marksOutstanding,    \* marks requested from the carrier and not yet acknowledged
  carrierAudio,        \* frames queued at the carrier and not yet played: for each, the
                       \* latestMediaTs at which its output item began
  engineItem, engineItemDone,     \* the output item the engine is producing
  playItem, respBeganTs,          \* item of the last forwarded frame, and latestMediaTs when it began
  afterBargein,        \* a barge-in was acted on and no audio frame was forwarded since
  endCallsSeen,        \* end_call invocations received
  lastIntent,          \* last caller intent recorded by a lead update
  lastArgs,            \* argument payload of the last tool invocation
  repeats,             \* that invocation repeated the handler run just before it
  tenants, demo_sessions,   \* database tables: tenants by tenant_id, demo slots by demo_number
  wsCallSid,           \* part_004: `callSid` of the carrier connection
  tenant,              \* part_004: `tenant` resolved for the carrier connection
  instructions,        \* session.ts: `instructions` compiled by the RealtimeSession constructor
  lastFrame,           \* payload of the last carrier media frame
  lastLookup,          \* dialled number and time of the last incoming-call webhook
  uncaught,            \* an exception escaped an event listener: the process is gone
  validateSignature,   \* env.TWILIO_VALIDATE_SIGNATURE
  httpStatus,          \* status of the last response to a carrier webhook (0: none yet)
  lastSignature,       \* X-Twilio-Signature header of the last carrier webhook
  capturedFor,         \* for each lead, the tenant_id its call was answered for
  dashShown,           \* last dashboard response: status, tenant of the session, lead id
  onErrorCalls,        \* invocations of the bridge's onError callback
  sessions,            \* the RealtimeSession objects of the other calls in progress, by
                       \* call id: their media clock, response start, marker FIFO,
                       \* termination guard and pending end_call timers
  peerCompleted,       \* the "completed" status webhook of the second call was delivered
  dbVersion,           \* repo.ts openDb: statements run on the in-memory database
  pendingFlush,        \* `pendingFlush`: the 300 ms flush timer is set
  flushing,            \* `flushing`: a flush awaits its storage write
  snapshot,            \* the dbVersion the flush in progress exported
  persisted,           \* the dbVersion held by the storage (PostgreSQL row or file)
  engineWire           \* the engine connection so far: the number of session.update frames
                       \* written, the type of the first frame written, and the number of
                       \* runs of the greeting timer's callback

storeVars == <<mem, calls, leads, notifications>>
bridgeVars == <<session, twilioWs, openAiWs, streamSid, lastAssistantItemId,
                responseStartTs, latestMediaTs, markQueue, ended>>
timerVars == <<greetTimer, endCallTimers>>
effectVars == <<smsInFlight, hangups, notifyTriggers, smsRequests, smsSent>>
engineVars == <<engineItem, engineItemDone, playItem, respBeganTs, afterBargein>>
histVars == <<endCallsSeen, lastIntent, lastArgs, repeats>>
ctxVars == <<tenants, demo_sessions, wsCallSid, tenant, instructions, lastFrame, lastLookup,
             uncaught>>
httpVars == <<validateSignature, httpStatus, lastSignature>>
dashVars == <<capturedFor, dashShown>>
callbackVars == <<onErrorCalls>>
wireVars == <<engineWire>>
peerVars == <<sessions, peerCompleted>>
flushVars == <<dbVersion, pendingFlush, flushing, snapshot, persisted>>
envVars == <<callOver, statusCompleted, twilioStopped, marksOutstanding, carrierAudio,
             engineVars, histVars, ctxVars, httpVars, dashVars, callbackVars, wireVars, peerVars, flushVars>>
vars == <<storeVars, bridgeVars, timerVars, effectVars, envVars, sent, lastEvent>>

\* an exception thrown out of an event listener is uncaught and ends the process
\* (no 'uncaughtException' handler is installed); no handler runs after that
ProcessUp == ~uncaught

\* no dashboard request was answered yet
NoResponse == [outcome |-> "none", tenant_id |-> NULLV, lead |-> NULLV]

(* ------------------------------------------------------ Call State Store *)
InitCallState ==
  [lead |-> [k \in LeadKeys |-> ABSENT],
   callerHistory |-> <<>>,
   historyConfirmed |-> FALSE,
   callerIntent |-> NULLV,
   tenantId |-> ABSENT,
   isDemo |-> FALSE]      \* unset: read only for its truth value

\* the map after getOrInitCallState(callSid)
getOrInitCallState(m, callSid) ==
  IF callSid \in DOMAIN m THEN m ELSE (callSid :> InitCallState) @@ m

setCallState(m, callSid, state) == (callSid :> state) @@ m

\* the entry is left in the map
clearCallState_Keep(m, callSid) == m

\* mem.clear(): every call's entry is dropped
clearCallState_All(m, callSid) == <<>>

\* mem.delete(callSid)
clearCallState(m, callSid) == [c \in DOMAIN m \ {callSid} |-> m[c]]

(* ------------------------------------------------------------- lead merge *)
\* a merge that accumulates text (s.lead[k] += v) instead of replacing it
MergeLead_Append(lead, patch) ==
  [k \in DOMAIN lead |->
     IF k \in DOMAIN patch /\ IsSet(patch[k])
       THEN (IF IsSet(lead[k]) THEN "<joined>" ELSE patch[k])
       ELSE lead[k]]

\* the draft is replaced by the patch: a field the patch does not set is dropped
MergeLead_Replace(lead, patch) ==
  [k \in DOMAIN lead |->
     IF k \in DOMAIN patch /\ IsSet(patch[k]) THEN patch[k] ELSE ABSENT]

\* the loop of onLeadUpdate over Object.entries(patch)
MergeLead(lead, patch) ==
  [k \in DOMAIN lead |->
     IF k \in DOMAIN patch /\ IsSet(patch[k]) THEN patch[k] ELSE lead[k]]

\* if (patch.caller_intent) s.callerIntent = patch.caller_intent
MergeIntent(callerIntent, patch) ==
  IF "caller_intent" \in DOMAIN patch /\ Truthy(patch["caller_intent"])
    THEN patch["caller_intent"] ELSE callerIntent

PatchState(state, patch) ==
  [state EXCEPT !.lead = MergeLead(state.lead, patch),
                !.callerIntent = MergeIntent(state.callerIntent, patch)]

\* tenant.tenant_id !== "default" ? tenant.tenant_id : null
LeadTenantId(t) == IF t.tenant_id # "default" THEN t.tenant_id ELSE NULLV

\* the row upsertLead writes: every column is `s.lead.<col> ?? null`
LeadRowOf(lead) ==
  [k \in LeadColumns |-> IF lead[k] = ABSENT THEN NULLV ELSE lead[k]]

AllPatches ==
  {[name |-> n, address |-> a, caller_intent |-> i] :
     n \in PatchValues, a \in AddressValues, i \in IntentValues}

(* ------------------------------------------------------------ database *)
\* the columns of a call row the model carries
CallColumns == {"tenant_id", "status", "recording_sid"}

\* upsertCall(db, {call_id, ...patch}): an existing row has the patch's columns
\* overwritten (a patch key whose value is undefined is not in the patch); a new
\* row has null in every column the patch leaves out
upsertCall(t, callId, patch) ==
  LET old == IF callId \in DOMAIN t THEN t[callId] ELSE [c \in CallColumns |-> NULLV]
  IN (callId :> [c \in CallColumns |-> IF c \in DOMAIN patch THEN patch[c] ELSE old[c]]) @@ t

\* upsertLead(db, {lead_id: callSid, tenant_id, ...}): one row per call; tenant_id
\* and the draft's columns are overwritten, lead_status is written only by the
\* INSERT (as null)
upsertLead(t, callId, tenantId, row) ==
  (callId :> (row @@ [tenant_id |-> tenantId,
                      lead_status |-> IF callId \in DOMAIN t THEN t[callId].lead_status
                                                             ELSE NULLV])) @@ t

\* updateLeadStatus: UPDATE leads SET lead_status = ? WHERE lead_id = ?
updateLeadStatus(t, leadId, status) ==
  IF leadId \in DOMAIN t THEN [t EXCEPT ![leadId].lead_status = status] ELSE t

\* INSERT OR IGNORE under the unique (call_id, channel) index
createNotification(t, callId) ==
  IF callId \in DOMAIN t THEN t ELSE (callId :> [status |-> "pending"]) @@ t

markNotification(t, callId, status) == [t EXCEPT ![callId].status = status]

\* getNotificationStatus(db, callId, "sms")?.status
getNotificationStatus(t, callId) ==
  IF callId \in DOMAIN t THEN t[callId].status ELSE NULLV

(* ----------------------------------------------------- Tenant Resolver *)
TenantIds == {"t1", "t2"}
Numbers == {"+611", "+612"}

\* the null a lookup returns when no row matches
NoTenant == [tenant_id |-> NULLV]

\* `instructions` before the session is constructed
NoInstructions == [role |-> <<>>]

\* a row of the tenants table
TenantRow(id, number, active, trade_type, service_area) ==
  [tenant_id |-> id, name |-> "Biz " \o id, trade_type |-> trade_type,
   ai_name |-> "Olivia", twilio_number |-> number, active |-> active,
   service_area |-> service_area]

\* buildFallbackTenant(): the process-wide default profile. trade_type is kept as
\* the list of its comma-separated pieces.
buildFallbackTenant ==
  [tenant_id |-> "default", name |-> "My Tradie Business", trade_type |-> <<"tradie">>,
   ai_name |-> "Olivia", twilio_number |-> EMPTY, active |-> 1, service_area |-> NULLV]

\* SELECT * FROM tenants WHERE twilio_number = ? AND active = 1 (twilio_number is UNIQUE)
getTenantByNumber(t, number) ==
  IF \E id \in DOMAIN t : t[id].twilio_number = number /\ t[id].active = 1
    THEN t[CHOOSE id \in DOMAIN t : t[id].twilio_number = number /\ t[id].active = 1]
    ELSE NoTenant

\* SELECT * FROM tenants WHERE tenant_id = ?
getTenantById(t, tenantId) == IF tenantId \in DOMAIN t THEN t[tenantId] ELSE NoTenant

\* a demo slot is taken whatever its expiry time
Unexpired_Always(row, now) == TRUE

\* the row survives `DELETE ... WHERE expires_at < now` and matches `expires_at >= now`
Unexpired(row, now) == row.expires_at >= now

\* the demo_sessions table after getDemoTenantByNumber's DELETE of expired rows
purgeDemoSessions(d, now) ==
  [n \in {m \in DOMAIN d : Unexpired(d[m], now)} |-> d[n]]

\* getDemoTenantByNumber(db, number) at time now: the tenant row, or null
getDemoTenantByNumber(d, t, number, now) ==
  LET d1 == purgeDemoSessions(d, now)
  IN IF number \in DOMAIN d1 /\ Unexpired(d1[number], now)
       THEN getTenantById(t, d1[number].tenant_id)
       ELSE NoTenant

\* the three-step lookup of POST /twilio/voice/incoming; `to` is ABSENT when the
\* request carries no string To
tenantByNumber(t, to) == IF to # ABSENT THEN getTenantByNumber(t, to) ELSE NoTenant

demoTenant(d, t, to, now) ==
  IF tenantByNumber(t, to) # NoTenant THEN NoTenant
  ELSE IF to # ABSENT THEN getDemoTenantByNumber(d, t, to, now) ELSE NoTenant

resolveTenant(d, t, to, now) ==
  IF tenantByNumber(t, to) # NoTenant THEN tenantByNumber(t, to)
  ELSE IF demoTenant(d, t, to, now) # NoTenant THEN demoTenant(d, t, to, now)
  ELSE buildFallbackTenant

(* ------------------------------------------------- Instruction Compiler *)
\* String.prototype.trim on the texts the model uses
Trim(s) ==
  CASE s = " Plumbing" -> "Plumbing"
    [] s = "   " -> EMPTY
    [] s = " Inner West " -> "Inner West"
    [] OTHER -> s

\* String.prototype.toLowerCase on the texts the model uses
ToLowerCase(s) ==
  CASE s = "Plumbing" -> "plumbing"
    [] OTHER -> s

\* text of seq[1] sep seq[2] sep ... (Array.prototype.join)
RECURSIVE Join(_, _)
Join(seq, sep) ==
  IF seq = <<>> THEN EMPTY
  ELSE IF Len(seq) = 1 THEN Head(seq)
  ELSE Head(seq) \o sep \o Join(Tail(seq), sep)

\* Array.prototype.flatMap over a sequence of sequences
RECURSIVE Flatten(_)
Flatten(seqs) == IF seqs = <<>> THEN <<>> ELSE Head(seqs) \o Flatten(Tail(seqs))

NonEmptyText(s) == s # EMPTY

\* TRADE_CONFIGS. intakeQuestions holds the lines that
\* trim().split("\n").map(trim).filter(Boolean) yields (without their bullet),
\* emergencyKeywords the keywords of the comma-separated text ("" has none).
TRADE_CONFIGS ==
  [plumber |->
     [label |-> "plumbing",
      intakeQuestions |->
        <<"Is there active water leaking right now?",
          "Is it a hot or cold water issue?",
          "Can they see where it's coming from, or is it hidden?",
          "Is it affecting one fixture or multiple areas?",
          "Are they an owner-occupier or a tenant (and does the landlord need to be contacted)?">>,
      emergencyKeywords |->
        <<"burst pipe", "flooding", "sewage overflow", "no hot water", "gas leak",
          "blocked drain backing up">>,
      emergencySafetyTip |-> "Turn off the water at the mains tap (usually near the water meter outside) to minimise damage while you wait."],
   electrician |->
     [label |-> "electrical",
      intakeQuestions |->
        <<"Is it a complete power outage or only part of the house?",
          "Has the circuit breaker tripped? Have they tried resetting it?",
          "Any burning smell, sparks, or visible damage?",
          "Is it safe to be in the affected area right now?">>,
      emergencyKeywords |->
        <<"sparks", "burning smell", "electrical fire", "no power", "power outage",
          "shock", "live wire">>,
      emergencySafetyTip |-> "If it's safe to do so, switch off the affected circuit at the switchboard and do not touch any exposed wiring."],
   roofer |->
     [label |-> "roofing",
      intakeQuestions |->
        <<"Is there active water coming in right now?",
          "Was this triggered by a recent storm or has it been happening for a while?",
          "What type of roof - tiles, Colorbond/metal, or other?",
          "Roughly how old is the roof?">>,
      emergencyKeywords |->
        <<"roof collapsed", "active flooding through ceiling", "structural damage",
          "storm damage">>,
      emergencySafetyTip |-> "Avoid the rooms directly under the leak until the roof is inspected - ceilings can become waterlogged and heavy."],
   painter |->
     [label |-> "painting",
      intakeQuestions |->
        <<"Is this interior, exterior, or both?",
          "Residential home or commercial premises?",
          "Roughly how many rooms or what's the approximate area?",
          "Is there any prep work needed - cracks, peeling, mould, or water stains?">>,
      emergencyKeywords |-> <<>>,
      emergencySafetyTip |-> EMPTY],
   carpenter |->
     [label |-> "carpentry",
      intakeQuestions |->
        <<"Is this a repair (e.g. broken door/frame) or new work (e.g. shelving, decking)?",
          "Roughly what's the scope - one item or a larger project?",
          "Any specific timber, finish, or style in mind?">>,
      emergencyKeywords |->
        <<"broken door won't close", "security issue", "structural damage">>,
      emergencySafetyTip |-> "If the issue is a door or lock that won't secure, consider a temporary fix until we can get there."],
   tiler |->
     [label |-> "tiling",
      intakeQuestions |->
        <<"Is this a repair (cracked/loose tiles) or a new installation?",
          "What area - bathroom, kitchen, outdoor?",
          "Roughly how many square metres?",
          "Do they have matching tiles already, or do we need to source them?">>,
      emergencyKeywords |-> <<>>,
      emergencySafetyTip |-> EMPTY],
   handyman |->
     [label |-> "handyman and general maintenance",
      intakeQuestions |->
        <<"What type of job is it - trade-specific (plumbing, electrical) or general maintenance?",
          "Is it a repair or an installation?",
          "Roughly how big is the job?">>,
      emergencyKeywords |->
        <<"flooding", "no power", "gas leak", "structural damage", "burst pipe">>,
      emergencySafetyTip |-> "For immediate safety hazards, we'll prioritise getting someone out to you as quickly as possible."]]

TRADE_ALIASES ==
  [plumbing |-> "plumber", electrical |-> "electrician", electric |-> "electrician",
   roofing |-> "roofer", roofs |-> "roofer", painting |-> "painter",
   carpentry |-> "carpenter", joiner |-> "carpenter", joinery |-> "carpenter",
   tiling |-> "tiler", tiles |-> "tiler", general |-> "handyman",
   maintenance |-> "handyman"]
    @@ ("general maintenance" :> "handyman")

\* property names every object literal inherits from Object.prototype: the lookup
\* TRADE_ALIASES[lower] finds a function there, which `??` does not replace
InheritedKeys == {"constructor", "toString", "valueOf", "hasOwnProperty"}
InheritedValue == "function () { [native code] }"

resolveTradeKey(raw) ==
  LET lower == ToLowerCase(Trim(raw))
  IN IF lower \in DOMAIN TRADE_ALIASES THEN TRADE_ALIASES[lower]
     ELSE IF lower \in InheritedKeys THEN InheritedValue
     ELSE lower

\* tenant.trade_type.split(",").map(trim).filter(Boolean), on the list of pieces
tradeKeysOf(trade_type) ==
  SelectSeq([i \in 1..Len(trade_type) |-> Trim(trade_type[i])], NonEmptyText)

\* no key has an entry in TRADE_CONFIGS
IsKnownTrade_None(k) == FALSE

\* TRADE_CONFIGS[k] !== undefined
IsKnownTrade(k) == k \in DOMAIN TRADE_CONFIGS

\* only the first configured trade contributes its intake questions
IntakeLines_FirstOnly(configs) ==
  IF configs = <<>> THEN <<>> ELSE configs[1].intakeQuestions

\* configs.flatMap((c) => c.intakeQuestions ... split ... filter(Boolean))
IntakeLines(configs) ==
  Flatten([i \in 1..Len(configs) |-> configs[i].intakeQuestions])

\* resolved.map((k) => TRADE_CONFIGS[k]).filter((c) => c !== undefined), as keys
KnownTrades(resolved) == SelectSeq(resolved, IsKnownTrade)

GenericSafetyTip == "advise them to stay safe until help arrives."

\* the four parts buildTradeSection returns. Texts that are fixed in the template
\* are kept by their heading; the interpolated parts are kept as they are.
buildTradeSection(tradeKeys) ==
  LET resolved == [i \in 1..Len(tradeKeys) |-> resolveTradeKey(tradeKeys[i])]
      known == KnownTrades(resolved)
      configs == [i \in 1..Len(known) |-> TRADE_CONFIGS[known[i]]]
      isHandyman == (\E i \in 1..Len(resolved) : resolved[i] = "handyman") \/ Len(resolved) > 2
      hasMultipleTrades == Len(resolved) > 1
      tradeLabel ==
        IF Len(configs) = 0 THEN Join(resolved, " / ")
        ELSE IF Len(configs) = 1 THEN configs[1].label
        ELSE Join([i \in 1..Len(configs) |-> configs[i].label], " and ")
      intakeLines == IntakeLines(configs)
      emergencyKws == Flatten([i \in 1..Len(configs) |-> configs[i].emergencyKeywords])
      tips == SelectSeq([i \in 1..Len(configs) |-> configs[i].emergencySafetyTip], NonEmptyText)
  IN [tradeLabel |-> tradeLabel,
      intakeSection |->
        IF Len(intakeLines) > 0
          THEN [heading |-> "# Trade-Specific Intake Questions", lines |-> intakeLines]
          ELSE [heading |-> EMPTY, lines |-> <<>>],
      emergencySection |->
        IF emergencyKws # <<>>
          THEN [heading |-> "# Emergency Handling", keywords |-> emergencyKws,
                tip |-> IF Len(tips) > 0 THEN tips[1] ELSE GenericSafetyTip]
          ELSE [heading |-> "# Emergency Handling", keywords |-> <<>>, tip |-> EMPTY],
      scopeSection |->
        IF ~isHandyman /\ ~hasMultipleTrades /\ Len(configs) = 1
          THEN [heading |-> "# Scope - Out-of-Trade Calls", tradeLabel |-> tradeLabel]
          ELSE [heading |-> "# Scope", tradeLabel |-> tradeLabel]]

\* serviceArea is a text that trim() leaves non-empty, whitespace included or not
Blank_NoTrim(serviceArea) == serviceArea \in {NULLV, ABSENT, EMPTY}

\* !serviceArea?.trim()
Blank(serviceArea) == serviceArea \in {NULLV, ABSENT} \/ Trim(serviceArea) = EMPTY

OutOfAreaMarker == "OUT OF AREA - owner to confirm"
AlwaysCollect == "ALWAYS collect the caller's details regardless"
NeverTurnAway == " - never turn a caller away without taking their information."

\* buildServiceAreaSection: "" or the clause, as the list of its text pieces with
\* the interpolated ${serviceArea} in place
buildServiceAreaSection(serviceArea) ==
  IF Blank(serviceArea) THEN <<>>
  ELSE <<"# Service Area",
         "This business serves: ", serviceArea, ".",
         "When the caller gives their address or suburb:",
         "- If it sounds clearly outside the service area, say: let me take your details anyway and the team will confirm if we can help.",
         "- If you are not sure whether the address is in range, proceed normally and collect their details.",
         "- ", AlwaysCollect, NeverTurnAway,
         "- In save_lead(), if the address seems outside the service area, set next_action to ",
         OutOfAreaMarker>>

\* buildSystemPrompt(tenant, callerHistory, fromNumber, isDemo): the parts of the
\* template that depend on its arguments (callerHistory is always empty here)
buildSystemPrompt(t, fromNumber, isDemo) ==
  LET trade == buildTradeSection(tradeKeysOf(t.trade_type))
  IN [demoSection |-> IF isDemo THEN "# Demo Mode" ELSE EMPTY,
      role |-> <<"# Role & Objective", "You are ",
                 IF Truthy(t.ai_name) THEN t.ai_name ELSE "Olivia",
                 ", the friendly receptionist for ", t.name, ", an Australian ",
                 trade.tradeLabel, " business.">>,
      fromNumber |-> IF fromNumber \in {NULLV, ABSENT} THEN "unknown" ELSE fromNumber,
      scopeSection |-> trade.scopeSection,
      serviceAreaSection |-> buildServiceAreaSection(t.service_area),
      intakeSection |-> trade.intakeSection,
      emergencySection |-> trade.emergencySection]

(* ---------------------------------------------------- owner notification *)
\* the send starts whether or not a lead row exists for the call
NotifyProceeds_NoLeadCheck(callId, callerIntent) ==
  /\ ~(Truthy(callerIntent) /\ callerIntent \in NO_SMS_INTENTS)
  /\ getNotificationStatus(notifications, callId) # "sent"

\* the synchronous prefix of notifyOwnerSmsIfNeeded decides whether a send starts
NotifyProceeds(callId, callerIntent) ==
  /\ ~(Truthy(callerIntent) /\ callerIntent \in NO_SMS_INTENTS)
  /\ getNotificationStatus(notifications, callId) # "sent"
  /\ callId \in DOMAIN leads

\* notifyOwnerSmsIfNeeded up to `await sendOwnerSms(...)`
notifyOwnerSmsIfNeeded(callId, callerIntent) ==
  IF NotifyProceeds(callId, callerIntent)
    THEN /\ notifications' = createNotification(notifications, callId)
         /\ smsInFlight' = smsInFlight + 1
         /\ smsRequests' = smsRequests + 1
    ELSE UNCHANGED <<notifications, smsInFlight, smsRequests>>

\* the continuation after `await sendOwnerSms(...)`: resolved or rejected
SmsSendDone(ok) ==
  /\ ProcessUp
  /\ smsInFlight > 0
  /\ smsInFlight' = smsInFlight - 1
  /\ notifications' = markNotification(notifications, Call, IF ok THEN "sent" ELSE "error")
  /\ smsSent' = IF ok THEN smsSent + 1 ELSE smsSent
  /\ sent' = <<>>
  /\ lastEvent' = "sms_done"
  /\ UNCHANGED <<mem, calls, leads, bridgeVars, timerVars, hangups, notifyTriggers,
                 smsRequests, envVars>>

(* ------------------------------------------------------------- webhooks *)
\* the X-Twilio-Signature header of a request: missing, present but not the HMAC
\* of the request under the account's auth token, or the HMAC the carrier computes
Signatures == {ABSENT, "forged", "valid"}

\* the middleware calls next()
NEXT == 0

\* twilio.validateRequest(authToken, signature, url, params)
validateRequest(signature) == signature = "valid"

\* twilioValidateMiddleware: NEXT, or the status it answers with (the copy in
\* twilio/verify.ts answers 401 in both cases)
twilioValidateMiddleware(signature) ==
  IF ~validateSignature THEN NEXT
  ELSE IF signature = ABSENT THEN 401
  ELSE IF ~validateRequest(signature) THEN 403
  ELSE NEXT

\* a route registered as app.post(path, twilioVerify, handler): the handler runs
\* only when the middleware calls next(); otherwise the middleware's answer is the
\* response and nothing else happens
twilioVerify(signature, handler) ==
  /\ ProcessUp
  /\ lastSignature' = signature
  /\ UNCHANGED validateSignature
  /\ IF twilioValidateMiddleware(signature) = NEXT
       THEN handler
       ELSE /\ httpStatus' = twilioValidateMiddleware(signature)
            /\ sent' = <<>>
            /\ lastEvent' = "rejected"
            /\ UNCHANGED <<storeVars, bridgeVars, timerVars, effectVars, callOver,
                           statusCompleted, twilioStopped, marksOutstanding, carrierAudio,
                           engineVars, histVars, ctxVars, dashVars, callbackVars, wireVars, peerVars, flushVars>>

\* POST /twilio/voice/incoming at time now: the tenant is resolved from the dialled
\* number, the call state is created with the caller's number and the tenant
\* context, and the call row is written. The carrier posts it once, when the call
\* arrives.
Incoming(from, to, now) ==
  /\ ProcessUp
  /\ Call \notin DOMAIN calls
  /\ demo_sessions' = IF tenantByNumber(tenants, to) = NoTenant /\ to # ABSENT
                        THEN purgeDemoSessions(demo_sessions, now)
                        ELSE demo_sessions
  /\ LET resolved == resolveTenant(demo_sessions, tenants, to, now)
         m1 == getOrInitCallState(mem, Call)
         s1 == [m1[Call] EXCEPT !.lead["phone"] = IF from # ABSENT THEN from ELSE @,
                                !.tenantId = resolved.tenant_id,
                                !.isDemo =
                                   (demoTenant(demo_sessions, tenants, to, now) # NoTenant)]
     IN mem' = setCallState(m1, Call, s1)
  /\ calls' = upsertCall(calls, Call,
                          [tenant_id |-> LeadTenantId(resolveTenant(demo_sessions, tenants, to, now)),
                           status |-> "in-progress"])
  /\ lastLookup' = [to |-> to, now |-> now]
  /\ httpStatus' = 200
  /\ sent' = <<>>
  /\ lastEvent' = "incoming"
  /\ UNCHANGED <<leads, notifications, bridgeVars, timerVars, effectVars, callOver,
                 statusCompleted, twilioStopped, marksOutstanding, carrierAudio, engineVars,
                 histVars, tenants, wsCallSid, tenant, instructions, lastFrame, uncaught, dashVars, callbackVars, wireVars, peerVars, flushVars>>

\* POST /twilio/voice/status. "completed" is posted once, after the call was torn
\* down; it notifies the owner and clears the call state.
Status(callStatus) ==
  /\ ProcessUp
  /\ Call \in DOMAIN calls
  /\ IF callStatus = "completed" THEN callOver /\ ~statusCompleted ELSE ~callOver
  /\ calls' = upsertCall(calls, Call, [status |-> callStatus])
  /\ IF callStatus = "completed"
       THEN LET m1 == getOrInitCallState(mem, Call)
            IN /\ notifyOwnerSmsIfNeeded(Call, m1[Call].callerIntent)
               /\ mem' = clearCallState(m1, Call)
               /\ statusCompleted' = TRUE
       ELSE UNCHANGED <<notifications, smsInFlight, smsRequests, mem, statusCompleted>>
  /\ httpStatus' = 200
  /\ sent' = <<>>
  /\ lastEvent' = "status"
  /\ UNCHANGED <<leads, bridgeVars, timerVars, hangups, notifyTriggers, smsSent,
                 callOver, twilioStopped, marksOutstanding, carrierAudio, engineVars, histVars, ctxVars, dashVars, callbackVars, wireVars, peerVars, flushVars>>

\* POST /twilio/voice/transfer-fallback: getCallSid throws when the body has no
\* CallSid (the framework answers 500); otherwise the stream TwiML is returned
TransferFallback(callSid) ==
  /\ ProcessUp
  /\ httpStatus' = IF Truthy(callSid) THEN 200 ELSE 500
  /\ sent' = <<>>
  /\ lastEvent' = "transfer_fallback"
  /\ UNCHANGED <<storeVars, bridgeVars, timerVars, effectVars, callOver, statusCompleted,
                 twilioStopped, marksOutstanding, carrierAudio, engineVars, histVars, ctxVars, dashVars, callbackVars, wireVars, peerVars, flushVars>>

\* POST /twilio/voice/recording: the recording columns of the call row are written
Recording(callSid, recordingSid) ==
  /\ ProcessUp
  /\ calls' = IF callSid # ABSENT
                THEN upsertCall(calls, callSid,
                                IF recordingSid = ABSENT THEN <<>>
                                                         ELSE [recording_sid |-> recordingSid])
                ELSE calls
  /\ httpStatus' = 200
  /\ sent' = <<>>
  /\ lastEvent' = "recording"
  /\ UNCHANGED <<mem, leads, notifications, bridgeVars, timerVars, effectVars, callOver,
                 statusCompleted, twilioStopped, marksOutstanding, carrierAudio, engineVars,
                 histVars, ctxVars, dashVars, callbackVars, wireVars, peerVars, flushVars>>

\* POST /twilio/demo/caller-script, registered with no middleware: the scripted
\* caller's TwiML is built from the query string and returned, whatever the
\* request's signature header
DemoCallerScript(signature) ==
  /\ ProcessUp
  /\ lastSignature' = signature
  /\ httpStatus' = 200
  /\ sent' = <<>>
  /\ lastEvent' = "demo_caller_script"
  /\ UNCHANGED <<storeVars, bridgeVars, timerVars, effectVars, callOver, statusCompleted,
                 twilioStopped, marksOutstanding, carrierAudio, engineVars, histVars, ctxVars,
                 validateSignature, dashVars, callbackVars, wireVars, peerVars, flushVars>>

\* the caller hangs up: the carrier tears the call down
CallerHangup ==
  /\ Call \in DOMAIN calls
  /\ ~callOver
  /\ callOver' = TRUE
  /\ sent' = <<>>
  /\ lastEvent' = "caller_hangup"
  /\ UNCHANGED <<storeVars, bridgeVars, timerVars, effectVars, statusCompleted,
                 twilioStopped, marksOutstanding, carrierAudio, engineVars, histVars, ctxVars, httpVars, dashVars, callbackVars, wireVars, peerVars, flushVars>>

(* ------------------------------------------------------ session helpers *)
\* RealtimeSession.send with no readyState test: the frame is written (queued by the
\* socket) whatever the state of the engine connection
send_Unguarded(msgs) == msgs

\* RealtimeSession.send: written only while the engine connection is OPEN
send(msgs) == IF openAiWs = "OPEN" THEN msgs ELSE <<>>

\* RealtimeSession.sendToTwilio: written only while the carrier connection is OPEN
sendToTwilio(msgs) == IF twilioWs = "OPEN" THEN msgs ELSE <<>>

\* RealtimeSession.cleanup: the engine connection's next readyState
cleanup(readyState) == IF readyState = "OPEN" THEN "CLOSING" ELSE readyState

\* the 'message' event of the engine connection is emitted until the socket is closed
EngineDelivers == ProcessUp /\ session /\ openAiWs \in {"OPEN", "CLOSING"}

\* carrier messages reach the session while the carrier connection is open
CarrierDelivers == ProcessUp /\ session /\ twilioWs = "OPEN" /\ ~twilioStopped

\* only the function_call_output is written, no response.create after it
ToolAck_NoContinue(callId) ==
  <<[to |-> "ai", type |-> "conversation.item.create", item |-> "function_call_output",
     call_id |-> callId]>>

ToolAck(callId) ==
  <<[to |-> "ai", type |-> "conversation.item.create", item |-> "function_call_output",
     call_id |-> callId],
    [to |-> "ai", type |-> "response.create"]>>

\* initSession writes the greeting seed first and the session.update after it
SessionInit_SeedFirst ==
  <<[to |-> "ai", type |-> "conversation.item.create", item |-> "message"],
    [to |-> "ai", type |-> "session.update"]>>

\* initSession: this.send(sessionUpdate)
SessionInit == <<[to |-> "ai", type |-> "session.update"]>>

\* initSession: the two frames of the greeting timer's callback
GreetingSeed ==
  <<[to |-> "ai", type |-> "conversation.item.create", item |-> "message"],
    [to |-> "ai", type |-> "response.create"]>>

\* the frames of msgs that openAiWs.send was called with
EngineFrames(msgs) == SelectSeq(msgs, LAMBDA m : m.to = "ai")

\* the record of the engine connection's traffic after msgs were written
Wire(w, msgs) ==
  LET fs == EngineFrames(msgs)
  IN [inits |-> w.inits + Len(SelectSeq(fs, LAMBDA m : m.type = "session.update")),
      greetRuns |-> w.greetRuns,
      first |-> IF w.first = NULLV /\ fs # <<>> THEN fs[1].type ELSE w.first]

\* the bridge, the store and the call tables before any call
InitBridge ==
  /\ mem = <<>>
  /\ calls = <<>>
  /\ leads = <<>>
  /\ notifications = <<>>
  /\ session = FALSE
  /\ twilioWs = "NONE"
  /\ openAiWs = "NONE"
  /\ streamSid = NoSid
  /\ lastAssistantItemId = NoItem
  /\ responseStartTs = NoTs
  /\ latestMediaTs = 0
  /\ markQueue = <<>>
  /\ ended = FALSE
  /\ greetTimer = FALSE
  /\ endCallTimers = 0
  /\ smsInFlight = 0
  /\ sent = <<>>
  /\ lastEvent = "init"
  /\ hangups = 0
  /\ notifyTriggers = 0
  /\ smsRequests = 0
  /\ smsSent = 0
  /\ callOver = FALSE
  /\ statusCompleted = FALSE
  /\ twilioStopped = FALSE
  /\ marksOutstanding = 0
  /\ carrierAudio = <<>>
  /\ engineItem = NoItem
  /\ engineItemDone = FALSE
  /\ playItem = NoItem
  /\ respBeganTs = 0
  /\ afterBargein = FALSE
  /\ endCallsSeen = 0
  /\ lastIntent = NULLV
  /\ lastArgs = [valid |-> TRUE, obj |-> <<>>]
  /\ repeats = FALSE
  /\ wsCallSid = NULLV
  /\ tenant = NoTenant
  /\ instructions = NoInstructions
  /\ lastFrame = NULLV
  /\ lastLookup = [to |-> ABSENT, now |-> 0]
  /\ uncaught = FALSE
  /\ httpStatus = 0
  /\ lastSignature = NULLV
  /\ capturedFor = <<>>
  /\ dashShown = NoResponse
  /\ onErrorCalls = 0
  /\ engineWire = [inits |-> 0, greetRuns |-> 0, first |-> NULLV]
  /\ sessions = <<>>
  /\ peerCompleted = FALSE
  /\ dbVersion = 0
  /\ pendingFlush = FALSE
  /\ flushing = FALSE
  /\ snapshot = 0
  /\ persisted = 0

\* no tenant is registered and no demo slot is assigned
Init ==
  /\ InitBridge
  /\ validateSignature = TRUE
  /\ tenants = <<>>
  /\ demo_sessions = <<>>

(* ------------------------------------------- carrier media-stream socket *)
\* wss.on("connection"): the carrier opens its media-stream connection
WsConnect ==
  /\ ProcessUp
  /\ Call \in DOMAIN calls
  /\ twilioWs = "NONE"
  /\ ~callOver
  /\ twilioWs' = "OPEN"
  /\ sent' = <<>>
  /\ lastEvent' = "ws_connect"
  /\ UNCHANGED <<storeVars, session, openAiWs, streamSid, lastAssistantItemId,
                 responseStartTs, latestMediaTs, markQueue, ended, timerVars,
                 effectVars, envVars>>

\* the start event is taken to carry a call identifier whatever it holds
MissingCallSid_Never(c) == FALSE

\* if (!callSid)
MissingCallSid(c) == ~Truthy(c)

\* data.start?.customParameters?.callSid ?? data.start?.callSid ?? null
CallSidOfStart(custom, top) ==
  IF custom \notin {ABSENT, NULLV} THEN custom
  ELSE IF top \notin {ABSENT, NULLV} THEN top
  ELSE NULLV

\* (tenantId ? getTenantById(db, tenantId) : null) ?? buildFallbackTenant()
SessionTenant(state) ==
  IF Truthy(state.tenantId) /\ getTenantById(tenants, state.tenantId) # NoTenant
    THEN getTenantById(tenants, state.tenantId)
    ELSE buildFallbackTenant

\* twilioWs.on("message") while no session exists: the "start" event.
\* custom, top: the call identifiers of the event (customParameters.callSid and
\* start.callSid). Constructs the RealtimeSession (its engine socket starts
\* CONNECTING, its instructions are compiled) and hands it the start message
\* (handleTwilioMessage, case "start").
WsStart(custom, top, sid) ==
  /\ ProcessUp
  /\ twilioWs = "OPEN"
  /\ ~session
  /\ ~callOver
  /\ wsCallSid' = CallSidOfStart(custom, top)
  /\ IF MissingCallSid(wsCallSid')
       THEN /\ twilioWs' = "CLOSING"
            /\ UNCHANGED <<mem, session, openAiWs, streamSid, latestMediaTs, responseStartTs,
                           tenant, instructions>>
       ELSE /\ mem' = getOrInitCallState(mem, Call)
            /\ tenant' = SessionTenant(mem'[Call])
            /\ instructions' = buildSystemPrompt(tenant', mem'[Call].lead["phone"],
                                                 mem'[Call].isDemo)
            /\ session' = TRUE
            /\ openAiWs' = "CONNECTING"
            /\ streamSid' = sid
            /\ latestMediaTs' = 0
            /\ responseStartTs' = NoTs
            /\ UNCHANGED twilioWs
  /\ sent' = <<>>
  /\ lastEvent' = "twilio_start"
  /\ UNCHANGED <<calls, leads, notifications, lastAssistantItemId, markQueue, ended,
                 timerVars, effectVars, callOver, statusCompleted, twilioStopped,
                 marksOutstanding, carrierAudio, engineVars, histVars, tenants,
                 demo_sessions, lastFrame, lastLookup, uncaught, httpVars, dashVars, callbackVars, wireVars, peerVars, flushVars>>

\* handleTwilioMessage, case "media"; the carrier's timestamps never decrease.
\* Its readyState test is the one send() makes.
\* payload: data.media?.payload, ABSENT when the frame carries none
TwilioMedia(ts, payload) ==
  /\ CarrierDelivers
  /\ ts >= latestMediaTs
  /\ latestMediaTs' = ts
  /\ sent' = send(<<[to |-> "ai", type |-> "input_audio_buffer.append", audio |-> payload]>>)
  /\ engineWire' = Wire(engineWire, sent')
  /\ lastFrame' = payload
  /\ lastEvent' = "twilio_media"
  /\ UNCHANGED <<storeVars, session, twilioWs, openAiWs, streamSid, lastAssistantItemId,
                 responseStartTs, markQueue, ended, timerVars, effectVars, callOver,
                 statusCompleted, twilioStopped, marksOutstanding, carrierAudio, engineVars,
                 histVars, tenants, demo_sessions, wsCallSid, tenant, instructions, lastLookup,
                 uncaught, httpVars, dashVars, callbackVars, peerVars, flushVars>>

\* handleTwilioMessage, case "mark": markQueue.shift(). The carrier acknowledges
\* the marks it was sent, in order, those of cleared audio first.
TwilioMark ==
  /\ CarrierDelivers
  /\ marksOutstanding > 0
  /\ marksOutstanding' = marksOutstanding - 1
  /\ carrierAudio' = IF marksOutstanding > Len(carrierAudio) THEN carrierAudio
                                                             ELSE Tail(carrierAudio)
  /\ markQueue' = IF markQueue = <<>> THEN <<>> ELSE Tail(markQueue)
  /\ sent' = <<>>
  /\ lastEvent' = "twilio_mark"
  /\ UNCHANGED <<storeVars, session, twilioWs, openAiWs, streamSid, lastAssistantItemId,
                 responseStartTs, latestMediaTs, ended, timerVars, effectVars,
                 callOver, statusCompleted, twilioStopped, engineVars, histVars, ctxVars, httpVars, dashVars, callbackVars, wireVars, peerVars, flushVars>>

\* handleTwilioMessage, case "stop": cleanup()
TwilioStop ==
  /\ CarrierDelivers
  /\ twilioStopped' = TRUE
  /\ openAiWs' = cleanup(openAiWs)
  /\ sent' = <<>>
  /\ lastEvent' = "twilio_stop"
  /\ UNCHANGED <<storeVars, session, twilioWs, streamSid, lastAssistantItemId,
                 responseStartTs, latestMediaTs, markQueue, ended, timerVars, effectVars,
                 callOver, statusCompleted, marksOutstanding, carrierAudio, engineVars,
                 histVars, ctxVars, httpVars, dashVars, callbackVars, wireVars, peerVars, flushVars>>

\* twilioWs.on("error"): session?.cleanup(); the socket then closes
TwilioError ==
  /\ ProcessUp
  /\ twilioWs = "OPEN"
  /\ twilioWs' = "CLOSING"
  /\ openAiWs' = IF session THEN cleanup(openAiWs) ELSE openAiWs
  /\ sent' = <<>>
  /\ lastEvent' = "twilio_error"
  /\ UNCHANGED <<storeVars, session, streamSid, lastAssistantItemId, responseStartTs,
                 latestMediaTs, markQueue, ended, timerVars, effectVars, envVars>>

\* twilioWs.on("close"): session?.cleanup()
TwilioClose ==
  /\ ProcessUp
  /\ twilioWs \in {"OPEN", "CLOSING"}
  /\ twilioWs' = "CLOSED"
  /\ openAiWs' = IF session THEN cleanup(openAiWs) ELSE openAiWs
  /\ sent' = <<>>
  /\ lastEvent' = "twilio_close"
  /\ UNCHANGED <<storeVars, session, streamSid, lastAssistantItemId, responseStartTs,
                 latestMediaTs, markQueue, ended, timerVars, effectVars, envVars>>

\* twilioWs.on("message") with a text that is not JSON: before the session exists
\* the connection handler's own try/catch returns, afterwards handleTwilioMessage's
TwilioMalformed ==
  /\ ProcessUp
  /\ twilioWs = "OPEN"
  /\ ~twilioStopped
  /\ sent' = <<>>
  /\ lastEvent' = "twilio_malformed"
  /\ UNCHANGED <<storeVars, bridgeVars, timerVars, effectVars, envVars>>

(* ------------------------------------------------------- engine socket *)
\* openAiWs.on("open"): initSession sends session.update and arms the greeting timer
AiOpen ==
  /\ ProcessUp
  /\ openAiWs = "CONNECTING"
  /\ openAiWs' = "OPEN"
  /\ sent' = SessionInit
  /\ engineWire' = Wire(engineWire, sent')
  /\ greetTimer' = TRUE
  /\ lastEvent' = "ai_open"
  /\ UNCHANGED <<storeVars, session, twilioWs, streamSid, lastAssistantItemId,
                 responseStartTs, latestMediaTs, markQueue, ended, endCallTimers,
                 effectVars, callOver, statusCompleted, twilioStopped, marksOutstanding,
                 carrierAudio, engineVars, histVars, ctxVars, httpVars, dashVars,
                 callbackVars, peerVars, flushVars>>

\* the 'error' listener never calls the callback
ReportsError_Never == FALSE

\* if (!this.ended) this.callbacks.onError(err)
ReportsError == ~ended

\* a callback that gives the call up: it closes the carrier connection
onError_ClosesCarrier(readyState) == IF readyState = "OPEN" THEN "CLOSED" ELSE readyState

\* the onError callback of the media-stream route: log.error only; the carrier
\* connection keeps its readyState
onError(readyState) == readyState

\* openAiWs.on("error"), then on("close"): the connection fails, before or after
\* it opened; the callback onError of part_004 only logs
AiFail ==
  /\ ProcessUp
  /\ openAiWs \in {"CONNECTING", "OPEN"}
  /\ openAiWs' = "CLOSED"
  /\ onErrorCalls' = IF ReportsError THEN onErrorCalls + 1 ELSE onErrorCalls
  /\ twilioWs' = IF ReportsError THEN onError(twilioWs) ELSE twilioWs
  /\ sent' = <<>>
  /\ lastEvent' = "ai_fail"
  /\ UNCHANGED <<storeVars, session, streamSid, lastAssistantItemId,
                 responseStartTs, latestMediaTs, markQueue, ended, timerVars,
                 effectVars, callOver, statusCompleted, twilioStopped,
                 marksOutstanding, carrierAudio, engineVars, histVars, ctxVars, httpVars,
                 dashVars, wireVars, peerVars, flushVars>>

\* openAiWs.on("close") alone: the engine ends an open connection; the listener logs
AiDropped ==
  /\ ProcessUp
  /\ openAiWs = "OPEN"
  /\ openAiWs' = "CLOSED"
  /\ sent' = <<>>
  /\ lastEvent' = "ai_dropped"
  /\ UNCHANGED <<storeVars, session, twilioWs, streamSid, lastAssistantItemId,
                 responseStartTs, latestMediaTs, markQueue, ended, timerVars,
                 effectVars, envVars>>

\* openAiWs.on("close") after cleanup() called close(): the closing handshake completes
AiClosed ==
  /\ ProcessUp
  /\ openAiWs = "CLOSING"
  /\ openAiWs' = "CLOSED"
  /\ sent' = <<>>
  /\ lastEvent' = "ai_closed"
  /\ UNCHANGED <<storeVars, session, twilioWs, streamSid, lastAssistantItemId,
                 responseStartTs, latestMediaTs, markQueue, ended, timerVars,
                 effectVars, envVars>>

\* the setTimeout(200) callback of initSession: greeting seed + response.create
GreetTimerFire ==
  /\ ProcessUp
  /\ greetTimer
  /\ greetTimer' = FALSE
  /\ sent' = send(GreetingSeed)
  /\ engineWire' = [Wire(engineWire, sent') EXCEPT !.greetRuns = @ + 1]
  /\ lastEvent' = "timer_greet"
  /\ UNCHANGED <<storeVars, bridgeVars, endCallTimers, effectVars, callOver,
                 statusCompleted, twilioStopped, marksOutstanding, carrierAudio, engineVars,
                 histVars, ctxVars, httpVars, dashVars, callbackVars, peerVars, flushVars>>

(* ------------------------------------------------- engine event handlers *)
\* openAiWs.on("message") with a text that is not JSON: JSON.parse(data.toString())
\* is evaluated in the listener with no try/catch around it, so the SyntaxError
\* leaves the listener
AiMalformed ==
  /\ EngineDelivers
  /\ uncaught' = TRUE
  /\ sent' = <<>>
  /\ lastEvent' = "ai_malformed"
  /\ UNCHANGED <<storeVars, bridgeVars, timerVars, effectVars, callOver, statusCompleted,
                 twilioStopped, marksOutstanding, carrierAudio, engineVars, histVars,
                 tenants, demo_sessions, wsCallSid, tenant, instructions, lastFrame,
                 lastLookup, httpVars, dashVars, callbackVars, wireVars, peerVars, flushVars>>


\* the audio frame is written with no mark request after it
AudioFrames_NoMark(mark) == <<[to |-> "twilio", event |-> "media"]>>

\* forwardAudioToTwilio: the media frame, then the mark request named `mark`
AudioFrames(mark) ==
  <<[to |-> "twilio", event |-> "media"],
    [to |-> "twilio", event |-> "mark", name |-> mark]>>

\* handleOpenAiEvent, case "response.output_audio.delta": forwardAudioToTwilio.
\* item: the output item the frame belongs to; mark: the `r-${Date.now()}` name.
\* The engine produces its items one after the other; MaxMarks caps the frames in
\* flight.
AiAudioDelta(item, hasDelta, mark) ==
  /\ EngineDelivers
  /\ \/ item = engineItem /\ engineItem # NoItem /\ ~engineItemDone
     \/ item = engineItem + 1 /\ item <= MaxItems /\ (engineItem = NoItem \/ engineItemDone)
  /\ Len(markQueue) < MaxMarks
  /\ marksOutstanding < MaxMarks
  /\ engineItem' = item
  /\ engineItemDone' = IF item = engineItem THEN engineItemDone ELSE FALSE
  /\ IF streamSid = NoSid \/ ~hasDelta
       THEN /\ sent' = <<>>
            /\ UNCHANGED <<responseStartTs, markQueue, marksOutstanding, carrierAudio,
                           playItem, respBeganTs, afterBargein>>
       ELSE /\ responseStartTs' = IF responseStartTs = NoTs THEN latestMediaTs
                                                             ELSE responseStartTs
            /\ sent' = sendToTwilio(AudioFrames(mark))
            /\ markQueue' = Append(markQueue, mark)
            /\ marksOutstanding' = IF twilioWs = "OPEN" THEN marksOutstanding + 1
                                                        ELSE marksOutstanding
            /\ playItem' = item
            /\ respBeganTs' = IF item = playItem THEN respBeganTs ELSE latestMediaTs
            /\ carrierAudio' = IF twilioWs = "OPEN" THEN Append(carrierAudio, respBeganTs')
                                                    ELSE carrierAudio
            /\ afterBargein' = FALSE
  /\ lastEvent' = "ai_audio_delta"
  /\ UNCHANGED <<storeVars, session, twilioWs, openAiWs, streamSid, lastAssistantItemId,
                 latestMediaTs, ended, timerVars, effectVars, callOver, statusCompleted,
                 twilioStopped, histVars, ctxVars, httpVars, dashVars, callbackVars, wireVars, peerVars, flushVars>>

\* handleOpenAiEvent, case "response.output_item.done"
AiItemDone ==
  /\ EngineDelivers
  /\ engineItem # NoItem
  /\ ~engineItemDone
  /\ engineItemDone' = TRUE
  /\ lastAssistantItemId' = engineItem
  /\ sent' = <<>>
  /\ lastEvent' = "ai_item_done"
  /\ UNCHANGED <<storeVars, session, twilioWs, openAiWs, streamSid, responseStartTs,
                 latestMediaTs, markQueue, ended, timerVars, effectVars, callOver,
                 statusCompleted, twilioStopped, marksOutstanding, carrierAudio,
                 engineItem, playItem, respBeganTs, afterBargein, histVars, ctxVars, httpVars, dashVars, callbackVars, wireVars, peerVars, flushVars>>

\* handleBargein acts on every speech-started event, whatever is outstanding
BargeinActs_NoOutstandingCheck == streamSid # NoSid

\* the early return of handleBargein
BargeinActs == streamSid # NoSid /\ markQueue # <<>> /\ responseStartTs # NoTs

\* handleOpenAiEvent, case "input_audio_buffer.speech_started": handleBargein
AiSpeechStarted ==
  /\ EngineDelivers
  /\ IF BargeinActs
       THEN /\ sent' =
                 (IF lastAssistantItemId # NoItem
                    THEN send(<<[to |-> "ai", type |-> "conversation.item.truncate",
                                 item_id |-> lastAssistantItemId, content_index |-> 0,
                                 audio_end_ms |-> Max0(latestMediaTs - responseStartTs)]>>)
                    ELSE <<>>)
                 \o sendToTwilio(<<[to |-> "twilio", event |-> "clear"]>>)
            /\ markQueue' = <<>>
            /\ responseStartTs' = NoTs
            /\ afterBargein' = TRUE
            /\ carrierAudio' = IF twilioWs = "OPEN" THEN <<>> ELSE carrierAudio
       ELSE /\ sent' = <<>>
            /\ UNCHANGED <<markQueue, responseStartTs, afterBargein, carrierAudio>>
  /\ engineWire' = Wire(engineWire, sent')
  /\ lastEvent' = "ai_speech_started"
  /\ UNCHANGED <<storeVars, session, twilioWs, openAiWs, streamSid, lastAssistantItemId,
                 latestMediaTs, ended, timerVars, effectVars, callOver, statusCompleted,
                 twilioStopped, marksOutstanding, engineItem, engineItemDone, playItem,
                 respBeganTs, histVars, ctxVars, httpVars, dashVars, callbackVars, peerVars, flushVars>>

ToolNames == {"save_lead", "end_call", "lookup_price"}
ToolCallIds == {"fc1", "fc2"}

\* event.arguments: a JSON text that parses to an object, or one that does not parse
ToolArgs(name) ==
  IF name = "save_lead"
    THEN {[valid |-> TRUE, obj |-> p] : p \in AllPatches}
           \cup {[valid |-> FALSE, obj |-> <<>>]}
    ELSE {[valid |-> TRUE, obj |-> <<>>]}

\* a text that does not parse is taken to carry a name
ParseArgs_Partial(raw) ==
  IF raw.valid THEN raw.obj ELSE [name |-> "v2"]

\* try { args = JSON.parse(event.arguments ?? "{}") } catch { args stays {} }
ParseArgs(raw) ==
  IF raw.valid THEN raw.obj ELSE <<>>

\* patch.caller_intent, undefined when the key is missing
PatchIntent(patch) ==
  IF "caller_intent" \in DOMAIN patch THEN patch["caller_intent"] ELSE ABSENT

\* the callback onLeadUpdate of part_004: merge the patch, store, upsert the lead row
onLeadUpdate(patch) ==
  /\ LET m1 == getOrInitCallState(mem, Call)
         s1 == PatchState(m1[Call], patch)
     IN /\ mem' = setCallState(m1, Call, s1)
        /\ leads' = upsertLead(leads, Call, LeadTenantId(tenant), LeadRowOf(s1.lead))
  /\ capturedFor' = (Call :> LeadTenantId(tenant)) @@ capturedFor
  /\ lastIntent' = IF Truthy(PatchIntent(patch)) THEN PatchIntent(patch) ELSE lastIntent

\* an end_call invocation is honoured whether or not one was honoured before
EndCallAccepted_NoGuard == TRUE

\* if (this.ended) return;
EndCallAccepted == ~ended

\* a plain else branch: every name other than save_lead ends the call
IsEndCall_AnyOther(name) == name # "save_lead"

\* else if (name === "end_call")
IsEndCall(name) == name = "end_call"

\* handleOpenAiEvent, case "response.function_call_arguments.done": handleFunctionCall
handleFunctionCall(name, raw, callId) ==
  /\ EngineDelivers
  /\ name = "end_call" => endCallsSeen < MaxEndCalls
  /\ endCallsSeen' = IF name = "end_call" THEN endCallsSeen + 1 ELSE endCallsSeen
  /\ lastArgs' = raw
  /\ repeats' = (lastEvent = name /\ lastArgs = raw)
  /\ CASE name = "save_lead" ->
            /\ onLeadUpdate(ParseArgs(raw))
            /\ sent' = send(ToolAck(callId))
            /\ UNCHANGED <<ended, endCallTimers>>
       [] IsEndCall(name) /\ EndCallAccepted ->
            /\ ended' = TRUE
            /\ sent' = send(ToolAck(callId))
            /\ endCallTimers' = endCallTimers + 1
            /\ UNCHANGED <<mem, leads, lastIntent, capturedFor>>
       [] OTHER ->
            /\ sent' = <<>>
            /\ UNCHANGED <<mem, leads, lastIntent, capturedFor, ended, endCallTimers>>
  /\ engineWire' = Wire(engineWire, sent')
  /\ lastEvent' = name
  /\ UNCHANGED <<calls, notifications, session, twilioWs, openAiWs, streamSid,
                 lastAssistantItemId, responseStartTs, latestMediaTs, markQueue,
                 greetTimer, effectVars, callOver, statusCompleted, twilioStopped,
                 marksOutstanding, carrierAudio, engineVars, ctxVars, httpVars, dashShown,
                 callbackVars, peerVars, flushVars>>

\* the timer is dropped when the engine connection is no longer open
EndCallTimerDue_EngineOpen == ProcessUp /\ endCallTimers > 0 /\ openAiWs = "OPEN"

\* a setTimeout(4000) of handleFunctionCall is pending: nothing clears it, so it
\* fires whatever has happened to the two connections since
EndCallTimerDue == ProcessUp /\ endCallTimers > 0

\* the setTimeout(4000) callback of handleFunctionCall: the callback onEndCall of
\* part_004 (state lookup, call row, notification, REST hang-up)
EndCallTimerFire ==
  /\ EndCallTimerDue
  /\ endCallTimers' = endCallTimers - 1
  /\ LET m1 == getOrInitCallState(mem, Call)
     IN /\ mem' = m1
        /\ notifyOwnerSmsIfNeeded(Call, m1[Call].callerIntent)
  /\ calls' = upsertCall(calls, Call, [status |-> "completed"])
  /\ notifyTriggers' = notifyTriggers + 1
  /\ hangups' = hangups + 1
  /\ callOver' = TRUE
  /\ sent' = <<>>
  /\ lastEvent' = "timer_end_call"
  /\ UNCHANGED <<leads, bridgeVars, greetTimer, smsSent, statusCompleted, twilioStopped,
                 marksOutstanding, carrierAudio, engineVars, histVars, ctxVars, httpVars, dashVars, callbackVars, wireVars, peerVars, flushVars>>

(* ------------------------------------------------------------ dashboard *)
\* the dash_session cookie a tenant's login stored in its session_token column
SessionToken(id) == "tok-" \o id

\* a request's cookie: a tenant's token, a token no row holds, or none
SessionTokens == {SessionToken(id) : id \in TenantIds} \cup {"tok-stale", ABSENT}

\* SELECT * FROM tenants WHERE session_token = ? AND active = 1
getTenantBySessionToken(t, token) ==
  LET ids == {id \in DOMAIN t : SessionToken(id) = token /\ t[id].active = 1}
  IN IF ids = {} THEN NoTenant ELSE t[CHOOSE id \in ids : TRUE]

\* SELECT l.* ... WHERE l.lead_id = ? AND l.tenant_id = ?: the lead's id, or null
\* (a NULL tenant_id equals no tenant id)
getLeadWithCall(l, leadId, tenantId) ==
  IF leadId \in DOMAIN l /\ l[leadId].tenant_id # NULLV /\ l[leadId].tenant_id = tenantId
    THEN leadId
    ELSE NULLV

LeadIds == {Call, "CA9"}
LeadStatuses == {"handled", "archived"}
AllowedStatuses == {"new", "handled", "booked", "called_back"}

\* GET /dashboard/leads/:id behind dashAuth
DashLeadDetail(token, leadId) ==
  /\ ProcessUp
  /\ LET t == IF token = ABSENT THEN NoTenant ELSE getTenantBySessionToken(tenants, token)
         lead == getLeadWithCall(leads, leadId, t.tenant_id)
     IN dashShown' = IF t = NoTenant
                       THEN [outcome |-> "login", tenant_id |-> NULLV, lead |-> NULLV]
                     ELSE IF lead = NULLV
                       THEN [outcome |-> "not_found", tenant_id |-> t.tenant_id, lead |-> NULLV]
                     ELSE [outcome |-> "shown", tenant_id |-> t.tenant_id, lead |-> lead]
  /\ sent' = <<>>
  /\ lastEvent' = "dash_lead_detail"
  /\ UNCHANGED <<storeVars, bridgeVars, timerVars, effectVars, callOver, statusCompleted,
                 twilioStopped, marksOutstanding, carrierAudio, engineVars, histVars, ctxVars,
                 httpVars, capturedFor, callbackVars, wireVars, peerVars, flushVars>>

\* POST /dashboard/leads/:id/status behind dashAuth
DashLeadStatus(token, leadId, newStatus) ==
  /\ ProcessUp
  /\ LET t == IF token = ABSENT THEN NoTenant ELSE getTenantBySessionToken(tenants, token)
         lead == getLeadWithCall(leads, leadId, t.tenant_id)
     IN IF t = NoTenant
          THEN /\ dashShown' = [outcome |-> "login", tenant_id |-> NULLV, lead |-> NULLV]
               /\ UNCHANGED leads
        ELSE IF lead = NULLV
          THEN /\ dashShown' = [outcome |-> "not_found", tenant_id |-> t.tenant_id,
                                lead |-> NULLV]
               /\ UNCHANGED leads
        ELSE IF newStatus \notin AllowedStatuses
          THEN /\ dashShown' = [outcome |-> "invalid", tenant_id |-> t.tenant_id,
                                lead |-> NULLV]
               /\ UNCHANGED leads
        ELSE /\ dashShown' = [outcome |-> "updated", tenant_id |-> t.tenant_id, lead |-> lead]
             /\ leads' = updateLeadStatus(leads, leadId, newStatus)
  /\ sent' = <<>>
  /\ lastEvent' = "dash_lead_status"
  /\ UNCHANGED <<mem, calls, notifications, bridgeVars, timerVars, effectVars, callOver,
                 statusCompleted, twilioStopped, marksOutstanding, carrierAudio, engineVars,
                 histVars, ctxVars, httpVars, capturedFor, callbackVars, wireVars, peerVars, flushVars>>

\* the order in which the tenants were created
CreatedOrder == <<"t1", "t2">>

\* SELECT tenant_id FROM tenants ORDER BY created_at ASC LIMIT 1
OldestTenant(t) ==
  CreatedOrder[CHOOSE i \in DOMAIN CreatedOrder :
                 /\ CreatedOrder[i] \in DOMAIN t
                 /\ \A j \in 1..(i - 1) : CreatedOrder[j] \notin DOMAIN t]

\* UPDATE <table> SET tenant_id = (oldest tenant) WHERE tenant_id IS NULL
\*   AND (SELECT COUNT(*) FROM tenants) > 0
Backfill(rows, t) ==
  IF DOMAIN t = {}
    THEN rows
    ELSE [id \in DOMAIN rows |->
            IF rows[id].tenant_id = NULLV
              THEN [rows[id] EXCEPT !.tenant_id = OldestTenant(t)]
              ELSE rows[id]]

\* the server process is restarted: the tables persist and openDb runs its
\* backfill on them; the call state store, the bridge and its timers are gone, and
\* the carrier, its media stream lost, tears down a call that was in progress
Restart ==
  /\ calls' = Backfill(calls, tenants)
  /\ leads' = Backfill(leads, tenants)
  /\ mem' = <<>>
  /\ session' = FALSE
  /\ twilioWs' = "NONE"
  /\ openAiWs' = "NONE"
  /\ streamSid' = NoSid
  /\ lastAssistantItemId' = NoItem
  /\ responseStartTs' = NoTs
  /\ latestMediaTs' = 0
  /\ markQueue' = <<>>
  /\ ended' = FALSE
  /\ greetTimer' = FALSE
  /\ endCallTimers' = 0
  /\ smsInFlight' = 0
  /\ wsCallSid' = NULLV
  /\ tenant' = NoTenant
  /\ instructions' = NoInstructions
  /\ uncaught' = FALSE
  /\ callOver' = (callOver \/ Call \in DOMAIN calls)
  /\ marksOutstanding' = 0
  /\ carrierAudio' = <<>>
  /\ sent' = <<>>
  /\ sessions' = <<>>
  /\ lastEvent' = "restart"
  /\ UNCHANGED <<notifications, hangups, notifyTriggers, smsRequests, smsSent,
                 statusCompleted, twilioStopped, engineVars, histVars, tenants,
                 demo_sessions, lastFrame, lastLookup, httpVars, dashVars, callbackVars, wireVars,
                 peerCompleted, flushVars>>

(* ------------------------------------------------- a second call in progress *)
\* the call id of a call that is in progress at the same time as Call
Peer == "CA2"

\* the fields of a RealtimeSession after its constructor; timers: its pending
\* setTimeout(4000) callbacks
NewSession ==
  [latestMediaTs |-> 0, responseStartTs |-> NoTs, markQueue |-> <<>>, ended |-> FALSE,
   timers |-> 0]

\* the variables a handler of the second call leaves alone whatever it does: the
\* first call's bridge, timers and connections, and the bookkeeping of its events
PeerFrame ==
  <<bridgeVars, timerVars, callOver, statusCompleted, twilioStopped,
    marksOutstanding, carrierAudio, engineVars, histVars, tenants, wsCallSid, tenant,
    instructions, lastFrame, uncaught, validateSignature, lastSignature, dashVars,
    callbackVars, wireVars, flushVars>>

\* POST /twilio/voice/incoming with CallSid = Peer
PeerIncoming(from, to, now) ==
  /\ ProcessUp
  /\ Peer \notin DOMAIN calls
  /\ demo_sessions' = IF tenantByNumber(tenants, to) = NoTenant /\ to # ABSENT
                        THEN purgeDemoSessions(demo_sessions, now)
                        ELSE demo_sessions
  /\ LET resolved == resolveTenant(demo_sessions, tenants, to, now)
         m1 == getOrInitCallState(mem, Peer)
         s1 == [m1[Peer] EXCEPT !.lead["phone"] = IF from # ABSENT THEN from ELSE @,
                                !.tenantId = resolved.tenant_id,
                                !.isDemo =
                                   (demoTenant(demo_sessions, tenants, to, now) # NoTenant)]
     IN /\ mem' = setCallState(m1, Peer, s1)
        /\ calls' = upsertCall(calls, Peer, [tenant_id |-> LeadTenantId(resolved),
                                             status |-> "in-progress"])
  /\ lastLookup' = [to |-> to, now |-> now]
  /\ httpStatus' = 200
  /\ sent' = <<>>
  /\ lastEvent' = "peer_incoming"
  /\ UNCHANGED <<leads, notifications, effectVars, sessions, peerCompleted, PeerFrame>>

\* the "start" event on the second call's carrier connection: its state is looked
\* up and its RealtimeSession is constructed
PeerStart ==
  /\ ProcessUp
  /\ Peer \in DOMAIN calls
  /\ Peer \notin DOMAIN sessions
  /\ mem' = getOrInitCallState(mem, Peer)
  /\ sessions' = (Peer :> NewSession) @@ sessions
  /\ sent' = <<>>
  /\ lastEvent' = "peer_start"
  /\ UNCHANGED <<calls, leads, notifications, effectVars, demo_sessions, lastLookup,
                 httpStatus, peerCompleted, PeerFrame>>

\* a handler of the second call's session that touches only that session's fields
PeerSessionStep(event, next) ==
  /\ ProcessUp
  /\ Peer \in DOMAIN sessions
  /\ sessions' = [sessions EXCEPT ![Peer] = next]
  /\ sent' = <<>>
  /\ lastEvent' = event
  /\ UNCHANGED <<storeVars, effectVars, demo_sessions, lastLookup, httpStatus,
                 peerCompleted, PeerFrame>>

\* handleTwilioMessage, case "media", of the second call's session
PeerMedia(ts) ==
  /\ Peer \in DOMAIN sessions
  /\ ts >= sessions[Peer].latestMediaTs
  /\ PeerSessionStep("peer_media", [sessions[Peer] EXCEPT !.latestMediaTs = ts])

\* forwardAudioToTwilio of the second call's session
PeerAudioDelta(mark) ==
  /\ Peer \in DOMAIN sessions
  /\ Len(sessions[Peer].markQueue) < MaxMarks
  /\ PeerSessionStep("peer_audio_delta",
       [sessions[Peer] EXCEPT
          !.responseStartTs = IF @ = NoTs THEN sessions[Peer].latestMediaTs ELSE @,
          !.markQueue = Append(@, mark)])

\* handleFunctionCall of the second call's session, name "end_call"
PeerEndCall ==
  /\ Peer \in DOMAIN sessions
  /\ sessions[Peer].timers < MaxEndCalls
  /\ PeerSessionStep("peer_end_call",
       IF sessions[Peer].ended THEN sessions[Peer]
       ELSE [sessions[Peer] EXCEPT !.ended = TRUE, !.timers = @ + 1])

\* handleFunctionCall of the second call's session, name "save_lead": the
\* callback onLeadUpdate of its carrier connection
PeerLeadUpdate(raw) ==
  /\ ProcessUp
  /\ Peer \in DOMAIN sessions
  /\ LET m1 == getOrInitCallState(mem, Peer)
         s1 == PatchState(m1[Peer], ParseArgs(raw))
     IN /\ mem' = setCallState(m1, Peer, s1)
        /\ leads' = upsertLead(leads, Peer, LeadTenantId(buildFallbackTenant),
                               LeadRowOf(s1.lead))
  /\ sent' = <<>>
  /\ lastEvent' = "peer_save_lead"
  /\ UNCHANGED <<calls, notifications, effectVars, sessions, demo_sessions, lastLookup,
                 httpStatus, peerCompleted, PeerFrame>>

\* the setTimeout(4000) callback of the second call's session: the callback
\* onEndCall of its carrier connection
PeerEndCallTimerFire ==
  /\ ProcessUp
  /\ Peer \in DOMAIN sessions
  /\ sessions[Peer].timers > 0
  /\ sessions' = [sessions EXCEPT ![Peer].timers = @ - 1]
  /\ LET m1 == getOrInitCallState(mem, Peer)
     IN /\ mem' = m1
        /\ notifyOwnerSmsIfNeeded(Peer, m1[Peer].callerIntent)
  /\ calls' = upsertCall(calls, Peer, [status |-> "completed"])
  /\ notifyTriggers' = notifyTriggers + 1
  /\ hangups' = hangups + 1
  /\ sent' = <<>>
  /\ lastEvent' = "peer_timer_end_call"
  /\ UNCHANGED <<leads, smsSent, demo_sessions, lastLookup, httpStatus, peerCompleted,
                 PeerFrame>>

\* POST /twilio/voice/status with CallSid = Peer and CallStatus = completed,
\* posted once
PeerStatusCompleted ==
  /\ ProcessUp
  /\ Peer \in DOMAIN calls
  /\ ~peerCompleted
  /\ peerCompleted' = TRUE
  /\ calls' = upsertCall(calls, Peer, [status |-> "completed"])
  /\ LET m1 == getOrInitCallState(mem, Peer)
     IN /\ notifyOwnerSmsIfNeeded(Peer, m1[Peer].callerIntent)
        /\ mem' = clearCallState(m1, Peer)
  /\ httpStatus' = 200
  /\ sent' = <<>>
  /\ lastEvent' = "peer_status"
  /\ UNCHANGED <<leads, hangups, notifyTriggers, smsSent, sessions, demo_sessions,
                 lastLookup, PeerFrame>>

(* ------------------------------------------------------- persistence *)
\* everything but the persistence layer
NonFlushVars ==
  <<storeVars, bridgeVars, timerVars, effectVars, callOver, statusCompleted, twilioStopped,
    marksOutstanding, carrierAudio, engineVars, histVars, ctxVars, httpVars, dashVars,
    callbackVars, wireVars, peerVars, sent>>

\* Db.run: the statement is applied to the in-memory database, then
\* scheduleFlush sets the 300 ms timer unless one is set
DbRun ==
  /\ ProcessUp
  /\ dbVersion < MaxWrites
  /\ dbVersion' = dbVersion + 1
  /\ pendingFlush' = TRUE
  /\ lastEvent' = "db_run"
  /\ UNCHANGED <<flushing, snapshot, persisted, NonFlushVars>>

\* the timer callback of scheduleFlush: pendingFlush = null, then flush(), which
\* returns at once while a flush is in progress and otherwise exports the
\* database and starts the storage write
FlushTimerFire ==
  /\ ProcessUp
  /\ pendingFlush
  /\ pendingFlush' = FALSE
  /\ IF flushing
       THEN UNCHANGED <<flushing, snapshot>>
       ELSE /\ flushing' = TRUE
            /\ snapshot' = dbVersion
  /\ lastEvent' = "flush_timer"
  /\ UNCHANGED <<dbVersion, persisted, NonFlushVars>>

\* the storage write of flush() completes (it is taken to succeed): the storage
\* holds the exported snapshot; finally { flushing = false }
FlushDone ==
  /\ ProcessUp
  /\ flushing
  /\ persisted' = snapshot
  /\ flushing' = FALSE
  /\ lastEvent' = "flush_done"
  /\ UNCHANGED <<dbVersion, pendingFlush, snapshot, NonFlushVars>>

(* ------------------------------------------------------ specifications *)
\* carrier, engine-socket and timer steps shared by every specification
Lifecycle ==
  \/ twilioVerify("valid", Incoming("+61400", "+611", 0))
  \/ WsConnect
  \/ \E custom \in {Call, ABSENT}, sid \in StreamSids : WsStart(custom, ABSENT, sid)
  \/ TwilioStop
  \/ TwilioError
  \/ TwilioClose
  \/ AiOpen
  \/ AiFail
  \/ AiClosed
  \/ GreetTimerFire

\* the audio path: media timestamps, output items, marks and barge-in in full
NextAudio ==
  \/ Lifecycle
  \/ \E ts \in 0..MaxTs : TwilioMedia(ts, "p1")
  \/ TwilioMark
  \/ \E item \in 1..MaxItems, hasDelta \in BOOLEAN, mark \in MarkNames :
       AiAudioDelta(item, hasDelta, mark)
  \/ AiItemDone
  \/ AiSpeechStarted
  \/ AiDropped

SpecAudio == Init /\ [][NextAudio]_vars

\* lead updates the termination paths are exercised with
CallArgs(name) ==
  IF name = "save_lead"
    THEN {[valid |-> TRUE,
           obj |-> [name |-> "v1", address |-> ABSENT, caller_intent |-> "new_job"]],
          [valid |-> TRUE,
           obj |-> [name |-> ABSENT, address |-> ABSENT, caller_intent |-> "spam"]]}
    ELSE ToolArgs(name)

\* the termination paths: tool calls, timers, webhooks and the notification,
\* with one audio frame shape
NextCall ==
  \/ Lifecycle
  \/ \E st \in {"in-progress", "completed"} : twilioVerify("valid", Status(st))
  \/ CallerHangup
  \/ \E ok \in BOOLEAN : SmsSendDone(ok)
  \/ AiAudioDelta(1, TRUE, "r-1")
  \/ AiSpeechStarted
  \/ \E name \in ToolNames : \E raw \in CallArgs(name) : handleFunctionCall(name, raw, "fc1")
  \/ EndCallTimerFire

SpecCall == Init /\ [][NextCall]_vars

\* the lead draft: every patch shape, applied during a call and around its end
NextLead ==
  \/ \E from \in FromValues : twilioVerify("valid", Incoming(from, "+611", 0))
  \/ WsConnect
  \/ WsStart(Call, ABSENT, "MZ1")
  \/ AiOpen
  \/ TwilioClose
  \/ CallerHangup
  \/ twilioVerify("valid", Status("completed"))
  \/ \E raw \in ToolArgs("save_lead") : handleFunctionCall("save_lead", raw, "fc1")

SpecLead == Init /\ [][NextLead]_vars

\* the pieces a tenant's comma-separated trade_type is made of: trade keys, an
\* alias with blanks and capitals, an unknown key, an inherited property name and
\* the empty piece of a doubled or trailing comma
RawTradePieces ==
  {"plumber", " Plumbing", "electrician", "handyman", "painter", "tradie", "constructor",
   EMPTY}
TradeTypes == UNION {[1..n -> RawTradePieces] : n \in 1..MaxTrades}
ServiceAreas == {NULLV, ABSENT, EMPTY, "   ", "Inner West", " Inner West "}

\* one active tenant on +611 with any trade list and any service area
InitCompile ==
  /\ InitBridge
  /\ validateSignature = TRUE
  /\ demo_sessions = <<>>
  /\ \E tt \in TradeTypes, sa \in ServiceAreas :
       tenants = ("t1" :> TenantRow("t1", "+611", 1, tt, sa))

\* the Instruction Compiler: a call to the tenant's number or to an unmapped
\* number, up to the session.update that carries the compiled instructions
NextCompile ==
  \/ \E to \in {"+611", "+619"} : twilioVerify("valid", Incoming("+61400", to, 0))
  \/ WsConnect
  \/ WsStart(Call, ABSENT, "MZ1")
  \/ AiOpen

SpecCompile == InitCompile /\ [][NextCompile]_vars

\* the tenants table: t1 on +611 (active or not), t2 on +612, each present or not
TenantTables ==
  {T1 @@ T2 :
     T1 \in {<<>>} \cup {("t1" :> TenantRow("t1", "+611", a, <<"plumber">>, NULLV)) : a \in {0, 1}},
     T2 \in {<<>>, ("t2" :> TenantRow("t2", "+612", 1, <<"electrician">>, NULLV))}}

\* the demo_sessions table: empty, or one slot on a number, bound to a tenant id,
\* with an expiry time
DemoTables ==
  {<<>>} \cup {(n :> [tenant_id |-> id, expires_at |-> e]) :
                 n \in Numbers, id \in TenantIds, e \in 0..MaxNow}

InitTenant ==
  /\ InitBridge
  /\ validateSignature = TRUE
  /\ tenants \in TenantTables
  /\ demo_sessions \in DemoTables

\* the Tenant Resolver: the incoming-call webhook for any dialled number at any
\* time, and the media stream that takes the resolved tenant over
NextTenant ==
  \/ \E to \in Numbers \cup {"+619", ABSENT}, now \in 0..MaxNow : twilioVerify("valid", Incoming("+61400", to, now))
  \/ WsConnect
  \/ WsStart(Call, ABSENT, "MZ1")
  \/ AiOpen

SpecTenant == InitTenant /\ [][NextTenant]_vars

\* signature validation switched on or off
InitWebhook ==
  /\ InitBridge
  /\ validateSignature \in BOOLEAN
  /\ tenants = <<>>
  /\ demo_sessions = <<>>

\* the carrier webhooks: every /twilio route, requested with any signature header
\* at any time, around one call that records a lead
NextWebhook ==
  \/ \E sig \in Signatures : twilioVerify(sig, Incoming("+61400", "+611", 0))
  \/ \E sig \in Signatures, st \in {"in-progress", "completed"} : twilioVerify(sig, Status(st))
  \/ \E sig \in Signatures, c \in {Call, ABSENT} : twilioVerify(sig, TransferFallback(c))
  \/ \E sig \in Signatures, c \in {Call, ABSENT}, r \in {"RE1", ABSENT} :
       twilioVerify(sig, Recording(c, r))
  \/ \E sig \in Signatures : DemoCallerScript(sig)
  \/ WsConnect
  \/ WsStart(Call, ABSENT, "MZ1")
  \/ AiOpen
  \/ TwilioClose
  \/ CallerHangup
  \/ \E ok \in BOOLEAN : SmsSendDone(ok)
  \/ \E raw \in CallArgs("save_lead") : handleFunctionCall("save_lead", raw, "fc1")

SpecWebhook == InitWebhook /\ [][NextWebhook]_vars

\* the dashboard: a call to a tenant's number or to an unmapped one records a
\* lead; any session reads any lead id and sets its status, before and after a
\* restart of the server
NextDashboard ==
  \/ \E to \in Numbers \cup {"+619"} : twilioVerify("valid", Incoming("+61400", to, 0))
  \/ WsConnect
  \/ WsStart(Call, ABSENT, "MZ1")
  \/ AiOpen
  \/ TwilioClose
  \/ \E raw \in CallArgs("save_lead") : handleFunctionCall("save_lead", raw, "fc1")
  \/ \E token \in SessionTokens, leadId \in LeadIds : DashLeadDetail(token, leadId)
  \/ \E token \in SessionTokens, leadId \in LeadIds, st \in LeadStatuses :
       DashLeadStatus(token, leadId, st)
  \/ Restart

SpecDashboard == InitTenant /\ [][NextDashboard]_vars

\* the grace period: end_call invocations and their timers, while either
\* connection opens, fails or closes and the caller may hang up
NextGrace ==
  \/ Lifecycle
  \/ CallerHangup
  \/ twilioVerify("valid", Status("completed"))
  \/ \E raw \in ToolArgs("end_call") : handleFunctionCall("end_call", raw, "fc1")
  \/ EndCallTimerFire

\* a pending timer of the event loop fires once it is due
SpecGrace == Init /\ [][NextGrace]_vars /\ WF_vars(EndCallTimerFire)

\* save_lead payloads that carry some of the draft's fields: a name with an
\* urgency tier, an address alone, an intent alone, values that are null or "",
\* and a text that does not parse
DraftArgs ==
  {[valid |-> TRUE, obj |-> [name |-> n, urgency_level |-> u]] :
     n \in {"v1", "v2", EMPTY}, u \in {"urgent", NULLV}}
    \cup {[valid |-> TRUE, obj |-> [address |-> a]] : a \in {"12 Main St", EMPTY}}
    \cup {[valid |-> TRUE, obj |-> [caller_intent |-> "new_job"]],
          [valid |-> TRUE, obj |-> <<>>],
          [valid |-> FALSE, obj |-> <<>>]}

\* the lead draft built up by partial updates, during a call and around its end
NextDraft ==
  \/ twilioVerify("valid", Incoming("+61400", "+611", 0))
  \/ WsConnect
  \/ WsStart(Call, ABSENT, "MZ1")
  \/ AiOpen
  \/ TwilioStop
  \/ CallerHangup
  \/ twilioVerify("valid", Status("completed"))
  \/ \E raw \in DraftArgs, callId \in ToolCallIds : handleFunctionCall("save_lead", raw, callId)

SpecDraft == Init /\ [][NextDraft]_vars

\* lead updates of two calls in progress at once
PairArgs == {[valid |-> TRUE, obj |-> [name |-> "v1", caller_intent |-> "new_job"]]}

\* two calls in progress at once: each one's webhooks, carrier frames, engine
\* audio, lead updates and termination, interleaved
NextPair ==
  \/ twilioVerify("valid", Incoming("+61400", "+611", 0))
  \/ WsConnect
  \/ WsStart(Call, ABSENT, "MZ1")
  \/ AiOpen
  \/ TwilioMedia(1, "p1")
  \/ AiAudioDelta(1, TRUE, "r-1")
  \/ \E raw \in PairArgs : handleFunctionCall("save_lead", raw, "fc1")
  \/ \E raw \in ToolArgs("end_call") : handleFunctionCall("end_call", raw, "fc1")
  \/ EndCallTimerFire
  \/ twilioVerify("valid", Status("completed"))
  \/ PeerIncoming("+61400", "+611", 0)
  \/ PeerStart
  \/ PeerMedia(1)
  \/ PeerAudioDelta("r-2")
  \/ \E raw \in PairArgs : PeerLeadUpdate(raw)
  \/ PeerEndCall
  \/ PeerEndCallTimerFire
  \/ PeerStatusCompleted

SpecPair == Init /\ [][NextPair]_vars

\* the persistence layer: statements run by any handler, the flush timer and the
\* storage writes
NextFlush ==
  \/ DbRun
  \/ FlushTimerFire
  \/ FlushDone

\* a timer that is set fires, and a storage write that was started completes
SpecFlush ==
  Init /\ [][NextFlush]_vars /\ WF_vars(FlushTimerFire) /\ WF_vars(FlushDone)

\* save_lead payloads that carry only an urgency tier
UrgencyArgs ==
  {[valid |-> TRUE,
    obj |-> [name |-> ABSENT, address |-> ABSENT, caller_intent |-> ABSENT,
             urgency_level |-> u]] : u \in UrgencyValues}

\* argument texts of an invocation whose name the bridge does not know: an empty
\* object and a text that does not parse
UnknownArgs == {[valid |-> TRUE, obj |-> <<>>], [valid |-> FALSE, obj |-> <<>>]}

\* the media stream of one call: start events with and without a call identifier,
\* frames with their payloads, malformed texts on both connections, urgency updates
NextStream ==
  \/ twilioVerify("valid", Incoming("+61400", "+611", 0))
  \/ WsConnect
  \/ \E custom \in {Call, ABSENT, EMPTY}, top \in {Call, ABSENT} : WsStart(custom, top, "MZ1")
  \/ TwilioMalformed
  \/ \E ts \in 0..MaxTs, payload \in MediaPayloads : TwilioMedia(ts, payload)
  \/ TwilioMark
  \/ TwilioStop
  \/ TwilioClose
  \/ AiOpen
  \/ AiFail
  \/ AiClosed
  \/ GreetTimerFire
  \/ AiMalformed
  \/ AiAudioDelta(1, TRUE, "r-1")
  \/ \E raw \in UrgencyArgs : handleFunctionCall("save_lead", raw, "fc1")
  \/ \E raw \in UnknownArgs : handleFunctionCall("lookup_price", raw, "fc1")

SpecStream == Init /\ [][NextStream]_vars

(* ================================================================ claims *)
NonEmptyValue(v) == v # ABSENT /\ v # NULLV /\ v # EMPTY

\* the draft field k of the call, absent while the store has no entry
LeadField(m, k) == IF Call \in DOMAIN m THEN m[Call].lead[k] ELSE ABSENT

\* C1: however many end_call invocations the engine sends, at most one hang-up
\* is issued and at most one notification trigger is made by the end-call path,
\* and once the grace-period timer of the first invocation has fired there is
\* exactly one of each.
C1_OneTermination ==
  /\ hangups <= 1
  /\ notifyTriggers <= 1
  /\ (endCallsSeen >= 1 /\ endCallTimers = 0) => (hangups = 1 /\ notifyTriggers = 1)

C1_Witness ==
  endCallsSeen >= 2 /\ endCallTimers = 0 /\ hangups = 1 /\ notifyTriggers = 1

\* C2: at most one owner SMS is sent for the call, whatever the interleaving of
\* the end-call callback, the "completed" status webhook and the sends in flight.
C2_AtMostOneSms == smsSent <= 1

\* C3: while the last caller intent recorded for the call is one of
\* wrong_number, spam, telemarketer, silent, abusive, no step starts an owner SMS.
C3_NonActionableNeverNotifies ==
  [][(lastIntent \in NO_SMS_INTENTS) => (smsRequests' = smsRequests)]_vars

\* C4: within a call (every step but the store clearing of the "completed"
\* webhook) a draft field holding a non-empty value keeps a non-empty value, and
\* a save_lead whose value for the field is absent, null or "" leaves it as it was.
C4_MonotonicDraft ==
  [][\A k \in LeadKeys :
       /\ (statusCompleted' = statusCompleted /\ NonEmptyValue(LeadField(mem, k)))
            => NonEmptyValue(LeadField(mem', k))
       /\ (lastEvent' = "save_lead" /\ statusCompleted' = statusCompleted
             /\ (k \notin DOMAIN ParseArgs(lastArgs')
                   \/ ~NonEmptyValue(ParseArgs(lastArgs')[k])))
            => LeadField(mem', k) = LeadField(mem, k)]_vars

C4_Witness ==
  /\ lastEvent = "save_lead"
  /\ lastArgs.valid
  /\ lastArgs.obj["name"] = EMPTY
  /\ lastArgs.obj["address"] = "12 Main St"
  /\ LeadField(mem, "name") = "v1"
  /\ LeadField(mem, "address") = "12 Main St"

\* C5: a save_lead that repeats the arguments of the save_lead handled just
\* before it leaves the call's stored state (draft and caller intent) unchanged.
C5_RepeatedUpdateNoOp ==
  [][(lastEvent' = "save_lead" /\ repeats') => mem' = mem]_vars

C5_Witness ==
  /\ lastEvent = "save_lead"
  /\ repeats
  /\ lastArgs.valid
  /\ lastArgs.obj["name"] = "v2"
  /\ lastArgs.obj["caller_intent"] = "new_job"
  /\ Call \in DOMAIN mem
  /\ mem[Call].lead["name"] = "v2"
  /\ mem[Call].callerIntent = "new_job"

\* C6: every truncate instruction sent while audio is playing at the carrier
\* carries audio_end_ms = max(0, T1 - T0), T1 the latest carrier media timestamp
\* and T0 the carrier media timestamp at which the response being played began.
C6_TruncationBoundary ==
  [][\A i \in DOMAIN sent' :
       (carrierAudio # <<>> /\ sent'[i].to = "ai"
          /\ sent'[i].type = "conversation.item.truncate")
         => sent'[i].audio_end_ms = Max0(latestMediaTs - Head(carrierAudio))]_vars

\* C7: after a barge-in was acted on and before another audio frame is forwarded,
\* a speech-started event sends nothing on either connection and changes no
\* bridge state.
C7_SecondSpeechStartedNoOp ==
  [][(afterBargein /\ lastEvent' = "ai_speech_started")
       => (sent' = <<>> /\ UNCHANGED <<bridgeVars, timerVars, storeVars>>)]_vars

C7_Witness ==
  /\ lastEvent = "ai_speech_started"
  /\ afterBargein
  /\ twilioWs = "OPEN"
  /\ openAiWs = "OPEN"
  /\ sent = <<>>

\* C8: once the call has completed and its store entry is gone, no later event
\* re-creates the entry.
C8_ClearedStaysCleared ==
  [][(statusCompleted /\ Call \notin DOMAIN mem) => Call \notin DOMAIN mem']_vars

\* C9: once the carrier connection has closed, the engine connection is not left
\* open: the bridge has closed it, whether it was open or connecting at the time.
C9_EngineClosedAfterCarrierClose ==
  (session /\ twilioWs = "CLOSED") => openAiWs # "OPEN"

EngineAndTimerEvents ==
  {"ai_audio_delta", "ai_item_done", "ai_speech_started", "save_lead", "end_call",
   "lookup_price", "timer_greet", "timer_end_call"}

\* C10: after the carrier connection has closed and cleanup has run, no engine
\* event and no timer changes the stored call state, writes to a connection, or
\* triggers the hang-up or the notification.
C10_QuietAfterShutdown ==
  [][(session /\ twilioWs = "CLOSED" /\ lastEvent' \in EngineAndTimerEvents)
       => /\ sent' = <<>>
          /\ mem' = mem
          /\ hangups' = hangups
          /\ notifyTriggers' = notifyTriggers
          /\ (smsRequests' = smsRequests)]_vars

\* C11: a text that is not JSON, received on the carrier connection or on the
\* engine connection, is dropped: no exception leaves the listener (so the events
\* after it are still handled), nothing is written to either connection, and the
\* bridge, its timers and the stored state are as they were.
C11_MalformedDropped ==
  [][(lastEvent' \in {"twilio_malformed", "ai_malformed"})
       => (~uncaught' /\ sent' = <<>> /\ UNCHANGED <<bridgeVars, timerVars, storeVars>>)]_vars

\* C12: a carrier frame handled while the engine connection is OPEN is written to
\* the engine as one input_audio_buffer.append carrying the frame's payload; a
\* frame handled in any other state writes nothing, and no other step (the
\* opening of the connection included) writes an input_audio_buffer.append.
C12_FramesOnlyWhileOpen ==
  [][/\ (lastEvent' = "twilio_media" /\ openAiWs = "OPEN")
          => sent' = <<[to |-> "ai", type |-> "input_audio_buffer.append",
                        audio |-> lastFrame']>>
     /\ (lastEvent' = "twilio_media" /\ openAiWs # "OPEN") => sent' = <<>>
     /\ (lastEvent' # "twilio_media")
          => \A i \in DOMAIN sent' :
               ~(sent'[i].to = "ai" /\ sent'[i].type = "input_audio_buffer.append")]_vars

\* a frame arrived while the engine connection was connecting, and the connection
\* has just opened
C12_Witness ==
  /\ lastEvent = "ai_open"
  /\ lastFrame = "p2"
  /\ openAiWs = "OPEN"
  /\ sent = <<[to |-> "ai", type |-> "session.update"]>>

\* C19: the urgency tier of the call's lead draft, when set, is one of emergency,
\* urgent, routine.
C19_UrgencyIsOneOfThree ==
  Call \in DOMAIN mem => mem[Call].lead["urgency_level"] \in UrgencyEnum \cup {ABSENT}

\* C20: a start event that carries no call identifier closes the carrier
\* connection and constructs no session, opens no engine connection and creates
\* no call state; no session exists on a connection without a call identifier.
C20_StartWithoutCallSid ==
  [][/\ (lastEvent' = "twilio_start" /\ wsCallSid' \in {NULLV, EMPTY})
          => /\ twilioWs' = "CLOSING"
             /\ ~session'
             /\ openAiWs' = "NONE"
             /\ mem' = mem
     /\ session' => wsCallSid' = Call]_vars

C20_Witness ==
  /\ lastEvent = "twilio_start"
  /\ wsCallSid = NULLV
  /\ twilioWs = "CLOSING"
  /\ ~session
  /\ openAiWs = "NONE"
  /\ Call \in DOMAIN mem

Range(seq) == {seq[i] : i \in DOMAIN seq}

Count(x, seq) == Cardinality({i \in DOMAIN seq : seq[i] = x})

\* the trade keys the session's instructions were compiled from
SessionTradeKeys == tradeKeysOf(tenant.trade_type)

\* the document compiled for the session's tenant with the trade keys tk instead
Recompiled(tk) ==
  buildSystemPrompt([tenant EXCEPT !.trade_type = tk], instructions.fromNumber,
                    instructions.demoSection # EMPTY)

\* the trades of TRADE_CONFIGS the keys tk resolve to
ConfiguredTrades(tk) ==
  {resolveTradeKey(tk[i]) : i \in DOMAIN tk} \cap DOMAIN TRADE_CONFIGS

\* C13: the instructions compiled for a trade list that names one trade twice
\* (A,A) are the instructions compiled for (A).
C13_DuplicateTradeIgnored ==
  (session /\ Len(SessionTradeKeys) = 2 /\ SessionTradeKeys[1] = SessionTradeKeys[2])
    => instructions = Recompiled(<<SessionTradeKeys[1]>>)

\* C14: the intake questions compiled for a trade list (A,B) are, as a set, the
\* intake questions compiled for (B,A).
C14_IntakeOrderIndependent ==
  (session /\ Len(SessionTradeKeys) = 2)
    => Range(instructions.intakeSection.lines)
         = Range(Recompiled(<<SessionTradeKeys[2], SessionTradeKeys[1]>>).intakeSection.lines)

C14_Witness ==
  /\ session
  /\ SessionTradeKeys = <<"plumber", "electrician">>
  /\ Len(instructions.intakeSection.lines) = 9
  /\ instructions.intakeSection.lines[1] = "Is there active water leaking right now?"

\* C15: when two different trades of the tenant's list have an emergency keyword
\* in common, the emergency clause of the instructions lists that keyword once.
C15_SharedKeywordOnce ==
  session =>
    \A a \in ConfiguredTrades(SessionTradeKeys), b \in ConfiguredTrades(SessionTradeKeys) :
      a # b =>
        \A kw \in Range(TRADE_CONFIGS[a].emergencyKeywords)
                    \cap Range(TRADE_CONFIGS[b].emergencyKeywords) :
          Count(kw, instructions.emergencySection.keywords) = 1

\* service areas that are null, undefined, empty or made of blanks only
BlankAreas == {NULLV, ABSENT, EMPTY, "   "}

\* the fixed texts of the service-area clause: its heading, the sentence naming the
\* area, and its four instructions (take the details anyway, proceed normally,
\* always collect, mark the next action); none of them tells the engine to refuse
ServiceAreaTemplate ==
  Range(buildServiceAreaSection("x")) \ {"x"}

ExpectedTenantId(to, now) ==
  IF to # ABSENT /\ \E id \in DOMAIN tenants :
                      tenants[id].twilio_number = to /\ tenants[id].active = 1
    THEN CHOOSE id \in DOMAIN tenants :
           tenants[id].twilio_number = to /\ tenants[id].active = 1
  ELSE IF /\ to \in DOMAIN demo_sessions
          /\ demo_sessions[to].expires_at >= now
          /\ demo_sessions[to].tenant_id \in DOMAIN tenants
    THEN demo_sessions[to].tenant_id
  ELSE "default"

C18_UnknownTradesDegrade ==
  (session /\ \E i \in DOMAIN SessionTradeKeys :
                resolveTradeKey(SessionTradeKeys[i]) \notin DOMAIN TRADE_CONFIGS)
    => /\ instructions.role # <<>>
       /\ Range(instructions.intakeSection.lines)
            = UNION {Range(TRADE_CONFIGS[k].intakeQuestions) :
                       k \in ConfiguredTrades(SessionTradeKeys)}
       /\ Range(instructions.emergencySection.keywords)
            = UNION {Range(TRADE_CONFIGS[k].emergencyKeywords) :
                       k \in ConfiguredTrades(SessionTradeKeys)}

C18_Witness ==
  /\ session
  /\ SessionTradeKeys = <<"tradie", "plumber">>
  /\ Len(instructions.intakeSection.lines) = 5
  /\ Len(instructions.emergencySection.keywords) = 6
  /\ instructions.scopeSection.tradeLabel = "plumbing"

\* the steps in which a request to a /twilio route is answered
WebhookEvents ==
  {"incoming", "status", "transfer_fallback", "recording", "demo_caller_script", "rejected"}

\* C21: with signature validation enabled, a request to any /twilio route whose
\* signature header is missing or invalid is answered with 401 or 403 and changes
\* nothing: the stored state, the bridge, the timers and the side effects are as
\* they were.
C21_UnsignedRejected ==
  [][(validateSignature /\ lastEvent' \in WebhookEvents /\ lastSignature' # "valid")
       => (httpStatus' \in {401, 403}
           /\ UNCHANGED <<storeVars, bridgeVars, timerVars, effectVars>>)]_vars

\* C22: a lead that a dashboard session is shown, or whose status it has set, was
\* captured for the tenant of that session: never for another tenant and never for
\* no tenant, whether or not the server was restarted in between.
C22_TenantIsolation ==
  dashShown.lead # NULLV => capturedFor[dashShown.lead] = dashShown.tenant_id

\* a frame written to the engine that truncates an item / to the carrier that
\* clears its queued audio
IsTruncate(m) == m.to = "ai" /\ m.type = "conversation.item.truncate"
IsClear(m) == m.to = "twilio" /\ m.event = "clear"

\* C23: every barge-in that is acted on writes a truncate to the engine and a
\* clear to the carrier, the truncate first.
C23_TruncateBeforeClear ==
  [][(lastEvent' = "ai_speech_started" /\ BargeinActs)
       => (\E i, j \in DOMAIN sent' :
             i < j /\ IsTruncate(sent'[i]) /\ IsClear(sent'[j]))]_vars

\* C24: every barge-in that is acted on writes the engine a truncate whose item_id
\* is the item whose audio is being played, and no step writes the carrier a clear
\* without writing the engine a truncate.
C24_TruncateNamesPlayingItem ==
  [][/\ (lastEvent' = "ai_speech_started" /\ BargeinActs)
          => (\E i \in DOMAIN sent' : IsTruncate(sent'[i]) /\ sent'[i].item_id = playItem)
     /\ (\E j \in DOMAIN sent' : IsClear(sent'[j]))
          => (\E i \in DOMAIN sent' : IsTruncate(sent'[i]))]_vars

\* C25: the marker FIFO holds as many marks as were requested from the carrier
\* after the last clear and are not yet acknowledged, and the acknowledgement of a
\* mark requested before a barge-in's clear leaves the FIFO as it was.
C25_MarkQueueIsOutstandingMarks ==
  [][/\ Len(markQueue') = Len(carrierAudio')
     /\ (lastEvent' = "twilio_mark" /\ marksOutstanding > Len(carrierAudio))
          => (markQueue' = markQueue)]_vars

\* the two frames that answer the tool invocation fc1
AckAndContinue ==
  <<[to |-> "ai", type |-> "conversation.item.create", item |-> "function_call_output",
     call_id |-> "fc1"],
    [to |-> "ai", type |-> "response.create"]>>

\* the termination steps run in this step
Terminates == hangups' # hangups \/ notifyTriggers' # notifyTriggers

C27_HangupAfterGrace ==
  (endCallsSeen >= 1) ~> (hangups >= 1 \/ twilioWs # "OPEN")

\* the hang-up was issued by the timer with the carrier connection open and the
\* engine connection gone
C27_Witness ==
  /\ lastEvent = "timer_end_call"
  /\ hangups = 1
  /\ twilioWs = "OPEN"
  /\ openAiWs \in {"CLOSING", "CLOSED"}

\* the value a patch supplies for field k, absent when it has no such key
Supplied(patch, k) == IF k \in DOMAIN patch THEN patch[k] ELSE ABSENT

\* C28: after a save_lead, every draft field for which the payload supplies a
\* non-empty value holds that value, and every other draft field holds what it
\* held before.
C28_PatchFrame ==
  [][(lastEvent' = "save_lead")
       => \A k \in LeadKeys :
            LeadField(mem', k) =
              IF NonEmptyValue(Supplied(ParseArgs(lastArgs'), k))
                THEN Supplied(ParseArgs(lastArgs'), k)
                ELSE LeadField(mem, k)]_vars

\* {name, urgency_level} was followed by {address}: all three are set, name and
\* urgency as first given
C28_Witness ==
  /\ lastEvent = "save_lead"
  /\ lastArgs.valid
  /\ DOMAIN lastArgs.obj = {"address"}
  /\ LeadField(mem, "name") = "v1"
  /\ LeadField(mem, "urgency_level") = "urgent"
  /\ LeadField(mem, "address") = "12 Main St"

\* the caller intent stored for the call, null while the store has no entry
StoredIntent(m) == IF Call \in DOMAIN m THEN m[Call].callerIntent ELSE NULLV

\* the acknowledgement of invocation c followed by the continue-generation request
AckOf(c) ==
  <<[to |-> "ai", type |-> "conversation.item.create", item |-> "function_call_output",
     call_id |-> c],
    [to |-> "ai", type |-> "response.create"]>>

\* an invocation whose payload does not parse leaves draft and intent as they were
InvalidPayloadNoOp(raw) ==
  ~raw.valid => /\ \A k \in LeadKeys : LeadField(mem', k) = LeadField(mem, k)
                /\ StoredIntent(mem') = StoredIntent(mem)

ToEngine(msgs) == \E i \in DOMAIN msgs : msgs[i].to = "ai"

\* C30: the failure of an engine connection that has not opened invokes onError
\* once and writes nothing; no step but the opening itself writes to a connection
\* that is still connecting, a closed connection is written to by no step, and it
\* stays closed (no new connection is made in its place).
C30_FailBeforeOpen ==
  [][/\ (lastEvent' = "ai_fail" /\ openAiWs = "CONNECTING")
          => (onErrorCalls' = onErrorCalls + 1 /\ openAiWs' = "CLOSED" /\ sent' = <<>>)
     /\ (openAiWs = "CONNECTING" /\ lastEvent' # "ai_open") => ~ToEngine(sent')
     /\ (openAiWs = "CLOSED") => (openAiWs' = "CLOSED" /\ ~ToEngine(sent'))]_vars

\* a carrier audio frame handled after the connection failed: the callback was
\* invoked once, the engine never produced anything, nothing is written
C30_Witness ==
  /\ lastEvent = "twilio_media"
  /\ openAiWs = "CLOSED"
  /\ onErrorCalls = 1
  /\ ~greetTimer
  /\ engineItem = NoItem
  /\ latestMediaTs > 0
  /\ sent = <<>>

\* the engine connection of a call in progress errored or closed in this step
EngineLostMidCall ==
  /\ lastEvent' \in {"ai_fail", "ai_dropped"}
  /\ openAiWs = "OPEN"
  /\ streamSid # NoSid

\* C31: when the engine connection errors or closes during a call, the carrier
\* connection keeps its state and is not hung up, no engine connection is opened
\* in place of the lost one, and the Call State Store is left as it was.
C31_EngineLossLeavesCarrierAndStore ==
  [][EngineLostMidCall
       => /\ twilioWs' = twilioWs
          /\ hangups' = hangups
          /\ openAiWs' = "CLOSED"
          /\ session' = session
          /\ mem' = mem]_vars

\* the engine connection failed after it had produced audio for a stream in
\* progress: the carrier connection is still open and the call's entry is stored
C31_Witness ==
  /\ lastEvent = "ai_fail"
  /\ onErrorCalls = 1
  /\ engineItem # NoItem
  /\ streamSid # NoSid
  /\ twilioWs = "OPEN"
  /\ openAiWs = "CLOSED"
  /\ Call \in DOMAIN mem

\* an invocation of an operation that is neither save_lead nor end_call was handled
UnknownToolHandled == lastEvent' = "lookup_price"

\* C32: a tool-call event naming an operation other than save_lead and end_call
\* changes nothing of the bridge, the store, the tables, the timers or the
\* effects, writes to neither connection, and no exception escapes its handler.
C32_UnknownToolNoOp ==
  [][UnknownToolHandled
       => /\ UNCHANGED <<storeVars, bridgeVars, timerVars, effectVars, callOver,
                         onErrorCalls>>
          /\ sent' = <<>>
          /\ uncaught' = uncaught]_vars

\* an unknown operation whose arguments do not parse was handled on an open
\* engine connection of a stream in progress, before any end_call
C32_Witness ==
  /\ lastEvent = "lookup_price"
  /\ ~lastArgs.valid
  /\ openAiWs = "OPEN"
  /\ twilioWs = "OPEN"
  /\ streamSid # NoSid
  /\ ~ended
  /\ ~uncaught
  /\ sent = <<>>

IsMedia(m) == m.to = "twilio" /\ m.event = "media"
IsMarkRequest(m) == m.to = "twilio" /\ m.event = "mark"

\* C33: whenever a handler writes an audio frame to the carrier connection, it
\* writes exactly two frames there and nothing else: the audio frame, then one
\* mark request, whose name is appended to the marker FIFO in the same step.
C33_MarkFollowsEveryFrame ==
  [][(\E i \in DOMAIN sent' : IsMedia(sent'[i]))
       => /\ Len(sent') = 2
          /\ IsMedia(sent'[1])
          /\ IsMarkRequest(sent'[2])
          /\ markQueue' = Append(markQueue, sent'[2].name)]_vars

\* a second audio frame was forwarded while the mark of the first is still
\* unacknowledged: the FIFO holds both marks, the newest last
C33_Witness ==
  /\ lastEvent = "ai_audio_delta"
  /\ Len(sent) = 2
  /\ IsMarkRequest(sent[2])
  /\ Len(markQueue) = 2
  /\ markQueue[2] = sent[2].name
  /\ marksOutstanding = 2

IsSessionInit(m) == m.to = "ai" /\ m.type = "session.update"
IsGreetingSeed(m) ==
  m.to = "ai" /\ m.type = "conversation.item.create" /\ m.item = "message"
Seeds(msgs) == Len(SelectSeq(msgs, IsGreetingSeed))

\* C34: on the engine connection the session.update frame is written once, when
\* the connection opens, and no frame is written before it; the greeting seed is
\* written only by the greeting timer's callback, one seed per run, only while the
\* connection is open, and that callback runs at most once per call.
C34_InitOnceAndFirst ==
  [][/\ engineWire'.inits <= 1
     /\ (openAiWs' = "OPEN") => (engineWire'.inits = 1)
     /\ engineWire'.first \in {NULLV, "session.update"}
     /\ (EngineFrames(sent') # <<>>) => (engineWire'.inits = 1)
     /\ (\E i \in DOMAIN sent' : IsSessionInit(sent'[i]))
          => (openAiWs = "CONNECTING" /\ IsSessionInit(sent'[1]))
     /\ engineWire'.greetRuns <= 1
     /\ (Seeds(sent') > 0)
          => /\ Seeds(sent') = 1
             /\ openAiWs = "OPEN"
             /\ engineWire'.greetRuns = engineWire.greetRuns + 1]_vars

\* after session.update and the greeting seed, a lead update was acknowledged and
\* a carrier audio frame was appended: one session.update in all, written first
C34_Witness ==
  /\ lastEvent = "twilio_media"
  /\ EngineFrames(sent) # <<>>
  /\ engineWire = [inits |-> 1, greetRuns |-> 1, first |-> "session.update"]
  /\ lastArgs.valid
  /\ Call \in DOMAIN leads
  /\ openAiWs = "OPEN"

\* a handler of the second call ran in this step
PeerEvents ==
  {"peer_incoming", "peer_start", "peer_media", "peer_audio_delta", "peer_save_lead",
   "peer_end_call", "peer_timer_end_call", "peer_status"}

\* the store entry of call c is the same before and after the step
SameEntry(c) ==
  /\ (c \in DOMAIN mem') = (c \in DOMAIN mem)
  /\ (c \in DOMAIN mem) => (mem'[c] = mem[c])

\* C35: with two calls in progress, a step of one call's handlers (webhooks,
\* carrier frames, engine audio, lead updates, termination, state clearing)
\* leaves the other call's Call State Store entry, marker FIFO, media and
\* response timestamps and termination guard as they were.
C35_CallsIsolated ==
  [][/\ (lastEvent' \in PeerEvents)
          => /\ SameEntry(Call)
             /\ markQueue' = markQueue
             /\ latestMediaTs' = latestMediaTs
             /\ responseStartTs' = responseStartTs
             /\ ended' = ended
     /\ (lastEvent' \notin PeerEvents)
          => /\ SameEntry(Peer)
             /\ sessions' = sessions]_vars

\* the first call was completed and its state cleared while the second call
\* keeps its lead draft, its media clock and an unacknowledged mark
C35_Witness ==
  /\ lastEvent = "status"
  /\ Call \notin DOMAIN mem
  /\ Peer \in DOMAIN mem
  /\ Peer \in DOMAIN sessions
  /\ mem[Peer].lead["name"] = "v1"
  /\ sessions[Peer].latestMediaTs = 1
  /\ sessions[Peer].markQueue = <<"r-2">>
  /\ ended

\* an empty state: an empty draft, an empty history, no caller intent
IsEmptyState(s) ==
  /\ \A k \in LeadKeys : s.lead[k] = ABSENT
  /\ s.callerHistory = <<>>
  /\ s.historyConfirmed = FALSE
  /\ s.callerIntent = NULLV

\* the entries of m other than c's
Others(m, c) == [d \in DOMAIN m \ {c} |-> m[d]]

\* C36: for every store the server reaches and every call id, getOrInit stores
\* and returns an empty state when the id is absent and touches no other entry;
\* it leaves the store as it is when the id is present; and after clear, the
\* next getOrInit returns an empty state and the other entries are kept.
C36_StoreContract ==
  \A c \in {Call, Peer} :
    LET got == getOrInitCallState(mem, c)
        again == getOrInitCallState(clearCallState(mem, c), c)
    IN /\ c \in DOMAIN got
       /\ (c \notin DOMAIN mem) => IsEmptyState(got[c])
       /\ (c \in DOMAIN mem) => (got = mem)
       /\ Others(got, c) = Others(mem, c)
       /\ c \notin DOMAIN clearCallState(mem, c)
       /\ IsEmptyState(again[c])
       /\ Others(again, c) = Others(mem, c)

\* a lead update handled after the completed status cleared the call's state:
\* the entry was created afresh, and the caller's number stored when the call
\* arrived is no longer in it
C36_Witness ==
  /\ lastEvent = "save_lead"
  /\ statusCompleted
  /\ Call \in DOMAIN mem
  /\ mem[Call].lead["phone"] = ABSENT
  /\ mem[Call].lead["name"] = "v1"
  /\ Call \in DOMAIN calls

\* no save_lead invocation was handled for the call so far
NoLeadUpdateYet == Call \notin DOMAIN capturedFor

\* C37: as long as no save_lead invocation was handled for the call, no lead row
\* exists for it and, whichever termination paths have run (the end_call timer,
\* the completed status webhook, both), no owner SMS was requested, is in flight
\* or was sent, and no notification row was written.
C37_NoLeadNoSms ==
  NoLeadUpdateYet
    => /\ Call \notin DOMAIN leads
       /\ smsRequests = 0
       /\ smsInFlight = 0
       /\ smsSent = 0
       /\ Call \notin DOMAIN notifications

\* the completed status webhook was handled after the end_call timer had already
\* run the notification once, for a call with no lead update: nothing was sent
C37_Witness ==
  /\ NoLeadUpdateYet
  /\ lastEvent = "status"
  /\ statusCompleted
  /\ notifyTriggers = 1
  /\ hangups = 1
  /\ Call \notin DOMAIN mem
  /\ smsRequests = 0

\* C38: every database write is eventually persisted: from some point on the
\* storage holds every statement that was run, also when a statement was run
\* while an earlier flush was still in progress.
C38_WritesEventuallyPersisted == <>[](persisted = dbVersion)

====
